---- MODULE Spec2Model ----
(***************************************************************************)
(* Libri trading back end: the MARL/A2C decision layer.                    *)
(*   - AI/marl_3agent/utils.py, inference.py : joint action -> signal      *)
(*   - BE/app/ai_wrapper.py : action selection, A2CWrapper, MarlWrapper,   *)
(*     AIService                                                            *)
(*   - BE/app/routers/ai.py : the /ai endpoints                            *)
(*   - BE/model_loader.py, AI/marl_4agent/live_week_simulation.py :        *)
(*     the other entry points that load the QMIX weights                   *)
(*   - AI/marl_4agent/main.py : the 4-agent aggregator, the training loop  *)
(*     with the replay buffer and the target sync, the mixer and the       *)
(*     final-day analysis                                                   *)
(*   - AI/marl_3agent/inference.py : the stand-alone prediction path       *)
(* Labels that are Korean in the source are written in romanised form.     *)
(***************************************************************************)
EXTENDS Integers, Sequences, FiniteSets, TLC

VARIABLES
    \* ---- signal aggregation (utils.py / inference.py) ----
    joint_action,        \* joint action handed to the aggregator
    other_joint_action,  \* a second joint action, aggregated independently
    final_signal,        \* utils.convert_joint_action_to_signal(joint_action)
    other_final_signal,  \* utils.convert_joint_action_to_signal(other_joint_action)
    inf_signal,          \* inference.convert_joint_action_to_signal(joint_action)
    other_inf_signal,    \* inference.convert_joint_action_to_signal(other_joint_action)
    \* ---- _select_action_from_logits ----
    probs,               \* softmax output, in units of 1/ProbUnits
    min_conf,            \* percent
    min_margin,          \* percent
    sample,              \* the sample flag
    sampled,             \* outcome of np.random.choice (-1: not drawn yet)
    action_idx,          \* returned action (-1: not called yet)
    \* ---- MarlWrapper.get_historical_signals, the date loop ----
    original_prices,     \* calendar day -> close (0: the day has no row)
    start_dt,            \* first requested day
    target_date,         \* loop variable
    current_step,        \* dummy_env.current_step (-1: never set)
    cumulative_return,   \* running strategy return, a fraction <<num, den>>
    results,             \* the list being built
    signal_log,          \* per emitted row: the aggregated signal string
    hist_done,           \* the loop has ended and results was returned
    \* ---- the wrappers, AIService and the /ai router ----
    load_env,            \* what load_model finds on disk, per model
    model_loaded,        \* A2CWrapper.model_loaded / MarlWrapper.model_loaded
    explainer_set,       \* A2CWrapper.explainer is not None
    today,               \* the calendar date of the wall clock
    last_call,           \* outcome of the latest entry-point call
    svc_result,          \* outcome of the latest AIService.predict_today call
    http_status,         \* status of the latest /ai response (0: none yet)
    first_served,        \* per mode: action of today's first served prediction
    \* ---- ModelLoader and simulate_live_week ----
    marl_model,          \* ModelLoader.marl_model
    sim_weights,         \* what the weekly simulation finds at model_path
    \* ---- greedy joint-action selection (select_actions with epsilon 0.0) ----
    weights,             \* the learner's fixed weights: observation -> agent -> Q-values
    greedy_log,          \* the selections made so far: (observation, joint action, signal)
    \* ---- get_top_features_marl ----
    agent_analyses,      \* per agent: the importance_list of (feature, imp) pairs
    top_k,               \* the top_k argument
    top_features,        \* the returned list
    feat_done,           \* get_top_features_marl has returned
    \* ---- a prediction path and the gradient mode ----
    pred_path,           \* which prediction function is running
    pred_pc,             \* index of its next call
    grad_stack,          \* modes saved by the enclosing no_grad blocks
    grad_enabled,        \* torch.is_grad_enabled()
    pred_actions,        \* the joint action selected on this path
    attr_grad,           \* per attribution call: the gradient mode it ran in
    \* ---- the current_step override ----
    n_rows,              \* len(norm_features)
    win_path,            \* the function that last built an observation
    win_set,             \* it assigned dummy_env.current_step
    win_rows,            \* rows of the frame its environment holds
    win_step,            \* the value assigned
    win_outcome,         \* what the function did
    \* ---- the 4-agent aggregators ----
    joint_action4,       \* a joint action of four agents
    main_signal,         \* main.convert_joint_action_to_signal(joint_action4)
    live_signal,         \* the weekly simulation's signal for joint_action4
    \* ---- the training loop ----
    start_steps,         \* total_steps at the point the run is followed from
    total_steps,         \* global step counter
    i_episode,           \* episodes completed
    train_pc,            \* "reset", "step" or "finished"
    epsilon,             \* the value last passed to select_actions (-1: none yet)
    buffer,              \* the replay buffer, oldest transition first
    last_sample,         \* ids of the minibatch last drawn by learner.train
    online_version,      \* gradient steps applied to the online networks
    target_version,      \* online_version the target networks were copied at
    sync_count,          \* calls of update_target_networks
    \* ---- the mixer and the final-day analysis ----
    hyper_w,             \* raw hypernetwork output per agent, for the fixed state
    hyper_b,             \* the state-dependent bias
    mix_op,              \* the operation applied last
    v_lo,                \* a per-agent value vector
    v_hi,                \* a second one, elementwise >= v_lo
    q_total_lo,          \* Q_total(v_lo, state)
    q_total_hi,          \* Q_total(v_hi, state)
    q_vals,              \* q_vals_all_agents of the final observation
    best_joint_action,   \* best_joint_action_indices
    best_q_total,        \* best_q_total_value
    own_joint_action,    \* each agent's own argmax action
    own_q_total,         \* Q_total of own_joint_action
    \* ---- API-key check of BE/main.py ----
    api_key,             \* config.API_KEY
    req_endpoint,        \* protected endpoint of the latest request
    req_header,          \* its X-API-Key header (NONE: header absent)
    auth_status,         \* status the dependency leads to (0: no request yet)
    \* ---- users and default portfolios of BE/main.py ----
    users,               \* users table: row id -> [email, google_id, onboarding_completed]
    portfolios,          \* portfolios table: row -> user id of 'user_{id}_default'
    auth_log,            \* answers of google_auth / onboarding_complete, in call order
    \* ---- stock_prices table of BE/app ----
    stock_prices,        \* (symbol, date) -> number of rows holding the pair
    saves,               \* number of save calls made
    save_call,           \* the latest call: input, returned count, rows inserted
    \* ---- get_historical_signals of both wrappers ----
    hist_kind,           \* the wrapper whose loop runs
    df_dropped,          \* leading rows of raw_df that add_indicators leaves out of df
    hist_window,         \* days of the rows of prev_window at the latest emitted row
    \* ---- working directory of the server process ----
    cwd,                 \* os.getcwd(): one per process
    overlap,             \* whether wrapper calls may run at the same time
    wrapper_loaded,      \* wrapper -> its model_loaded
    call,                \* thread -> the wrapper call it runs and its position
    last_exit,           \* exit path of the latest finished try block (sequential runs)
    \* ---- one user's portfolio in BE/app ----
    current_capital,     \* portfolio.current_capital (NONE: no portfolio row yet)
    holdings,            \* rows of the holdings table
    records,             \* investment records, in insertion order
    trades,              \* number of add_holding / sell_holding calls made
    last_trade,          \* the latest call and what it returned
    \* ---- portfolio of simulate_live_week ----
    sim_cash,            \* portfolio['cash']
    sim_shares,          \* portfolio['shares']
    sim_day,             \* number of simulated days
    sim_trade            \* the latest day's inputs and trade

sigVars == <<joint_action, other_joint_action, final_signal, other_final_signal,
             inf_signal, other_inf_signal>>
selVars == <<probs, min_conf, min_margin, sample, sampled, action_idx>>
histVars == <<original_prices, start_dt, target_date, current_step,
              cumulative_return, results, signal_log, hist_done>>
svcVars == <<load_env, model_loaded, explainer_set, today, last_call, svc_result,
             http_status, first_served>>
ldrVars == <<marl_model, sim_weights>>
servingVars == <<sigVars, selVars, histVars, svcVars, ldrVars>>
grdVars == <<weights, greedy_log>>
featVars == <<agent_analyses, top_k, top_features, feat_done>>
gradVars == <<pred_path, pred_pc, grad_stack, grad_enabled, pred_actions, attr_grad>>
winVars == <<n_rows, win_path, win_set, win_rows, win_step, win_outcome>>
sig4Vars == <<joint_action4, main_signal, live_signal>>
mixVars == <<hyper_w, hyper_b, mix_op, v_lo, v_hi, q_total_lo, q_total_hi, q_vals,
             best_joint_action, best_q_total, own_joint_action, own_q_total>>
trainVars == <<start_steps, total_steps, i_episode, train_pc, epsilon, buffer,
               last_sample, online_version, target_version, sync_count>>
authVars == <<api_key, req_endpoint, req_header, auth_status>>
acctVars == <<users, portfolios, auth_log>>
priceVars == <<stock_prices, saves, save_call>>
a2cVars == <<hist_kind, df_dropped, hist_window>>
cwdVars == <<cwd, overlap, wrapper_loaded, call, last_exit>>
tradeVars == <<current_capital, holdings, records, trades, last_trade>>
simVars == <<sim_cash, sim_shares, sim_day, sim_trade>>
engineVars == <<grdVars, featVars, gradVars, winVars, sig4Vars, trainVars,
              mixVars, authVars, acctVars, priceVars, a2cVars, cwdVars,
              tradeVars, simVars>>
exceptGrd == <<featVars, gradVars, winVars, sig4Vars, trainVars, mixVars,
              authVars, acctVars, priceVars, a2cVars, cwdVars, tradeVars,
              simVars>>
exceptFeat == <<grdVars, gradVars, winVars, sig4Vars, trainVars, mixVars,
              authVars, acctVars, priceVars, a2cVars, cwdVars, tradeVars,
              simVars>>
exceptGrad == <<grdVars, featVars, winVars, sig4Vars, trainVars, mixVars,
              authVars, acctVars, priceVars, a2cVars, cwdVars, tradeVars,
              simVars>>
exceptWin == <<grdVars, featVars, gradVars, sig4Vars, trainVars, mixVars,
              authVars, acctVars, priceVars, a2cVars, cwdVars, tradeVars,
              simVars>>
exceptSig4 == <<grdVars, featVars, gradVars, winVars, trainVars, mixVars,
              authVars, acctVars, priceVars, a2cVars, cwdVars, tradeVars,
              simVars>>
exceptTrain == <<grdVars, featVars, gradVars, winVars, sig4Vars, mixVars,
              authVars, acctVars, priceVars, a2cVars, cwdVars, tradeVars,
              simVars>>
exceptMix == <<grdVars, featVars, gradVars, winVars, sig4Vars, trainVars,
              authVars, acctVars, priceVars, a2cVars, cwdVars, tradeVars,
              simVars>>
exceptAuth == <<grdVars, featVars, gradVars, winVars, sig4Vars, trainVars,
              mixVars, acctVars, priceVars, a2cVars, cwdVars, tradeVars,
              simVars>>
exceptAcct == <<grdVars, featVars, gradVars, winVars, sig4Vars, trainVars,
              mixVars, authVars, priceVars, a2cVars, cwdVars, tradeVars,
              simVars>>
exceptPrice == <<grdVars, featVars, gradVars, winVars, sig4Vars, trainVars,
              mixVars, authVars, acctVars, a2cVars, cwdVars, tradeVars,
              simVars>>
exceptA2c == <<grdVars, featVars, gradVars, winVars, sig4Vars, trainVars,
              mixVars, authVars, acctVars, priceVars, cwdVars, tradeVars,
              simVars>>
exceptCwd == <<grdVars, featVars, gradVars, winVars, sig4Vars, trainVars,
              mixVars, authVars, acctVars, priceVars, a2cVars, tradeVars,
              simVars>>
exceptTrade == <<grdVars, featVars, gradVars, winVars, sig4Vars, trainVars,
              mixVars, authVars, acctVars, priceVars, a2cVars, cwdVars,
              simVars>>
exceptSim == <<grdVars, featVars, gradVars, winVars, sig4Vars, trainVars,
              mixVars, authVars, acctVars, priceVars, a2cVars, cwdVars,
              tradeVars>>

-----------------------------------------------------------------------------
(* Labels                                                                  *)

\* utils.py:8-13 (Korean labels of the five signals)
KO_STRONG_BUY  == "jeokgeuk maesu"
KO_BUY         == "maesu"
KO_HOLD        == "boyu"
KO_SELL        == "maedo"
KO_STRONG_SELL == "jeokgeuk maedo"
\* ai_wrapper.py:684 (Korean label of the HOLD action id)
KO_WATCH       == "gwanmang"

NONE == "none"

\* number of agents of the 3-agent variant (range(3) in the wrappers)
N_AGENTS_3 == 3

ActionIds == {0, 1, 2}

\* the action_map every 3-agent caller passes
action_map == (0 :> "Long") @@ (1 :> "Hold") @@ (2 :> "Short")

JointActions3 == [1..N_AGENTS_3 -> ActionIds]

-----------------------------------------------------------------------------
(* AI/marl_3agent/utils.py                                                 *)

action_to_score == [l \in {"Long", "Hold", "Short"} |->
                      IF l = "Long" THEN 1 ELSE IF l = "Hold" THEN 0 ELSE -1]

RECURSIVE SumScore(_, _, _)
SumScore(ja, amap, i) ==
    IF i > Len(ja) THEN 0
    ELSE action_to_score[amap[ja[i]]] + SumScore(ja, amap, i + 1)

\* the vote total of a joint action
VoteTotal(ja, amap) == SumScore(ja, amap, 1)

\* a slip that copies the +/-2 thresholds of the weekly simulation
convert_joint_action_to_signal_m(ja, amap) ==
    LET score == VoteTotal(ja, amap) IN
    IF score >= 2 THEN KO_STRONG_BUY
    ELSE IF score > 0 THEN KO_BUY
    ELSE IF score = 0 THEN KO_HOLD
    ELSE IF score < 0 /\ score > -2 THEN KO_SELL
    ELSE IF score <= -2 THEN KO_STRONG_SELL
    ELSE KO_HOLD

convert_joint_action_to_signal(ja, amap) ==
    LET score == VoteTotal(ja, amap) IN
    IF score >= 3 THEN KO_STRONG_BUY
    ELSE IF score > 0 THEN KO_BUY
    ELSE IF score = 0 THEN KO_HOLD
    ELSE IF score < 0 /\ score > -3 THEN KO_SELL
    ELSE IF score <= -3 THEN KO_STRONG_SELL
    ELSE KO_HOLD

-----------------------------------------------------------------------------
(* AI/marl_3agent/inference.py                                             *)

CountLabel(ja, amap, label) ==
    Cardinality({i \in 1..Len(ja) :
        (IF ja[i] \in DOMAIN amap THEN amap[ja[i]] ELSE "Hold") = label})

inference_convert_joint_action_to_signal(ja, amap) ==
    LET long_cnt  == CountLabel(ja, amap, "Long")
        short_cnt == CountLabel(ja, amap, "Short")
    IN  IF long_cnt > short_cnt /\ long_cnt >= 2 THEN "Long"
        ELSE IF short_cnt > long_cnt /\ short_cnt >= 2 THEN "Short"
        ELSE "Hold"

-----------------------------------------------------------------------------
(* BE/app/ai_wrapper.py : _select_action_from_logits                       *)

\* resolution of the probability grid
ProbUnits == 20

HOLD_ID == 2

\* softmax output: non-negative weights summing to one
ProbVectors == {p \in [0..2 -> 0..ProbUnits] : p[0] + p[1] + p[2] = ProbUnits}

\* (min_conf, min_margin) in percent: the defaults and the A2C call sites
ThresholdPairs == {<<70, 20>>, <<45, 10>>}

Max(S) == CHOOSE x \in S : \A y \in S : y <= x

\* np.argmax: the first index holding the maximum
ArgMax(p) == CHOOSE i \in DOMAIN p :
                /\ \A j \in DOMAIN p : p[j] <= p[i]
                /\ \A j \in DOMAIN p : p[j] = p[i] => i <= j

\* sorted_probs[0], sorted_probs[1]
MaxP(p)    == p[ArgMax(p)]
SecondP(p) == Max({p[j] : j \in DOMAIN p \ {ArgMax(p)}})

\* the filter joined with "and" instead of "or"
select_action_from_logits_m(p, conf, margin, smp, draw) ==
    LET max_p    == MaxP(p)
        second_p == SecondP(p)
    IN  IF (max_p * 100 < conf * ProbUnits)
           /\ ((max_p - second_p) * 100 < margin * ProbUnits)
        THEN HOLD_ID
        ELSE IF smp THEN draw ELSE ArgMax(p)

select_action_from_logits(p, conf, margin, smp, draw) ==
    LET max_p    == MaxP(p)
        second_p == SecondP(p)
    IN  IF (max_p * 100 < conf * ProbUnits)
           \/ ((max_p - second_p) * 100 < margin * ProbUnits)
        THEN HOLD_ID
        ELSE IF smp THEN draw ELSE ArgMax(p)

\* np.random.choice(len(probs), p=probs): any index of positive probability
Draws(p) == {i \in DOMAIN p : p[i] > 0}

-----------------------------------------------------------------------------
(* Specification SpecSignal: the two aggregators applied to two inputs     *)

SigIdle ==
    /\ joint_action = <<>>
    /\ other_joint_action = <<>>
    /\ final_signal = NONE
    /\ other_final_signal = NONE
    /\ inf_signal = NONE
    /\ other_inf_signal = NONE

SelIdle ==
    /\ probs = <<>>
    /\ min_conf = 0
    /\ min_margin = 0
    /\ sample = FALSE
    /\ sampled = -1
    /\ action_idx = -1

SigInit ==
    /\ joint_action \in JointActions3
    /\ other_joint_action \in JointActions3
    /\ final_signal = NONE
    /\ other_final_signal = NONE
    /\ inf_signal = NONE
    /\ other_inf_signal = NONE

ConvertUtils ==
    /\ final_signal = NONE
    /\ final_signal' = convert_joint_action_to_signal(joint_action, action_map)
    /\ other_final_signal' =
           convert_joint_action_to_signal(other_joint_action, action_map)
    /\ UNCHANGED <<joint_action, other_joint_action, inf_signal, other_inf_signal>>
    /\ UNCHANGED <<selVars, histVars, svcVars, ldrVars, engineVars>>

ConvertInference ==
    /\ inf_signal = NONE
    /\ inf_signal' =
           inference_convert_joint_action_to_signal(joint_action, action_map)
    /\ other_inf_signal' =
           inference_convert_joint_action_to_signal(other_joint_action, action_map)
    /\ UNCHANGED <<joint_action, other_joint_action, final_signal, other_final_signal>>
    /\ UNCHANGED <<selVars, histVars, svcVars, ldrVars, engineVars>>

-----------------------------------------------------------------------------
(* Specification SpecSelect: one call of _select_action_from_logits        *)

SelInit ==
    /\ probs \in ProbVectors
    /\ \E t \in ThresholdPairs : min_conf = t[1] /\ min_margin = t[2]
    /\ sample \in BOOLEAN
    /\ sampled = -1
    /\ action_idx = -1

SelectAction ==
    /\ action_idx = -1
    /\ \E draw \in Draws(probs) :
         /\ sampled' = draw
         /\ action_idx' =
                select_action_from_logits(probs, min_conf, min_margin, sample, draw)
    /\ UNCHANGED <<probs, min_conf, min_margin, sample>>
    /\ UNCHANGED <<sigVars, histVars, svcVars, ldrVars, engineVars>>

-----------------------------------------------------------------------------
(* Exact fractions <<num, den>>, den > 0, kept in lowest terms             *)

RECURSIVE Gcd(_, _)
Gcd(a, b) == IF b = 0 THEN a ELSE Gcd(b, a % b)

Abs(x) == IF x < 0 THEN -x ELSE x

Frac(n, d) ==
    LET g == Gcd(Abs(n), d) IN
    IF n = 0 THEN <<0, 1>> ELSE <<n \div g, d \div g>>

FZero == <<0, 1>>
FOne  == <<1, 1>>
FAdd(x, y) == Frac(x[1] * y[2] + y[1] * x[2], x[2] * y[2])
FSub(x, y) == Frac(x[1] * y[2] - y[1] * x[2], x[2] * y[2])
FMul(x, y) == Frac(x[1] * y[1], x[2] * y[2])
FInt(k)    == <<k, 1>>

-----------------------------------------------------------------------------
(* BE/app/ai_wrapper.py : MarlWrapper.get_historical_signals, lines        *)
(* 510-578, entered with the model loaded.  Day MaxDay is today; the data  *)
(* frame has a row for every day whose close is not 0.                     *)

\* the calendar: days 1..MaxDay, today = MaxDay
MaxDay == 5

\* marl_config.WINDOW_SIZE, scaled down
WINDOW_SIZE == 2

\* closes, in units of 1,400 KRW (50 -> 51 is 70,000 -> 71,400)
PriceLevels == {50, 51}

Days == 1..MaxDay
yesterday == MaxDay - 1

\* norm_features.index / original_prices.index
Index(prices) == {d \in Days : prices[d] # 0}

\* index.get_loc(d): the position of the row of day d
GetLoc(prices, d) == Cardinality({e \in Index(prices) : e < d})

\* iloc[k]: the day of row k
RowDay(prices, k) == CHOOSE d \in Index(prices) : GetLoc(prices, d) = k

\* lines 541-545: only "Long" and "Short" are recognised
hist_signal_int(final_signal_str) ==
    IF final_signal_str = "Long" THEN 0
    ELSE IF final_signal_str = "Short" THEN 1
    ELSE 2

\* line 560
pos_of == (0 :> 1) @@ (1 :> -1) @@ (2 :> 0)

\* line 562
compound(cum, strategy_daily) ==
    FSub(FMul(FAdd(FOne, cum), FAdd(FOne, strategy_daily)), FOne)

HistIdle ==
    /\ original_prices = <<>>
    /\ start_dt = 0
    /\ target_date = 0
    /\ current_step = -1
    /\ cumulative_return = FZero
    /\ results = <<>>
    /\ signal_log = <<>>
    /\ hist_done = FALSE

HistInit ==
    /\ original_prices \in [Days -> PriceLevels \cup {0}]
    /\ start_dt \in Days
    /\ target_date = start_dt
    /\ current_step = -1
    /\ cumulative_return = FZero
    /\ results = <<>>
    /\ signal_log = <<>>
    /\ hist_done = FALSE

\* lines 520-522: the day has no row
HistSkipMissing ==
    /\ hist_kind = "MarlWrapper"
    /\ ~hist_done
    /\ target_date <= yesterday
    /\ target_date \notin Index(original_prices)
    /\ target_date' = target_date + 1
    /\ UNCHANGED <<original_prices, start_dt, current_step, cumulative_return,
                   results, signal_log, hist_done>>
    /\ UNCHANGED <<sigVars, selVars, svcVars, ldrVars, engineVars>>

\* lines 524-528: not enough rows before the day
HistSkipShort ==
    /\ hist_kind = "MarlWrapper"
    /\ ~hist_done
    /\ target_date <= yesterday
    /\ target_date \in Index(original_prices)
    /\ GetLoc(original_prices, target_date) - 1 < WINDOW_SIZE - 1
    /\ target_date' = target_date + 1
    /\ UNCHANGED <<original_prices, start_dt, current_step, cumulative_return,
                   results, signal_log, hist_done>>
    /\ UNCHANGED <<sigVars, selVars, svcVars, ldrVars, engineVars>>

\* lines 530-573: one emitted row; ja is what learner.select_actions returns
HistEmit ==
    /\ hist_kind = "MarlWrapper"
    /\ ~hist_done
    /\ target_date <= yesterday
    /\ target_date \in Index(original_prices)
    /\ LET idx      == GetLoc(original_prices, target_date)
           prev_idx == idx - 1
       IN
       /\ prev_idx >= WINDOW_SIZE - 1
       /\ current_step' = prev_idx - WINDOW_SIZE + 1
       /\ \E ja \in JointActions3 :
            LET final_signal_str == convert_joint_action_to_signal(ja, action_map)
                signal_int == hist_signal_int(final_signal_str)
                curr_price == original_prices[target_date]
                prev_price == original_prices[RowDay(original_prices, idx - 1)]
                daily_pct_change == Frac(curr_price - prev_price, prev_price)
                strategy_daily == FMul(FInt(pos_of[signal_int]), daily_pct_change)
                cum == compound(cumulative_return, strategy_daily)
            IN
            /\ cumulative_return' = cum
            /\ results' = Append(results,
                   [date |-> target_date, signal |-> signal_int,
                    daily_return |-> daily_pct_change,
                    strategy_return |-> cum])
            /\ signal_log' = Append(signal_log, final_signal_str)
    /\ target_date' = target_date + 1
    /\ UNCHANGED <<original_prices, start_dt, hist_done>>
    /\ UNCHANGED <<sigVars, selVars, svcVars, ldrVars, engineVars>>

\* lines 517, 578: the loop ends and results is returned
HistReturn ==
    /\ ~hist_done
    /\ target_date > yesterday
    /\ hist_done' = TRUE
    /\ UNCHANGED <<original_prices, start_dt, target_date, current_step,
                   cumulative_return, results, signal_log>>
    /\ UNCHANGED <<sigVars, selVars, svcVars, ldrVars, engineVars>>

-----------------------------------------------------------------------------
(* BE/app/ai_wrapper.py : A2CWrapper, MarlWrapper                          *)

Models == {"a2c", "marl"}

\* calendar dates 1..MaxDate seen by the wall clock
MaxDate == 2

\* what load_model meets:
\*   "ok"         weights present and loadable
\*   "missing"    os.path.exists(model_path) is False
\*   "corrupt"    agent.load / load_state_dict raises (e.g. dimension mismatch)
\*   "raises"     an earlier step (config, data download) raises
\*   "shap_fails" (A2C) weights load, the SHAP set-up after them raises
LoadEnvs(m) ==
    IF m = "a2c" THEN {"ok", "missing", "corrupt", "raises", "shap_fails"}
    ELSE {"ok", "missing", "corrupt", "raises"}

\* what the data download gives a prediction
DataStates == {"ok", "short", "error"}

\* load_model: the flags after the call and whether it raised
load_model(m, loaded, expl, env) ==
    IF loaded THEN
        [model_loaded |-> TRUE, explainer_set |-> expl, raised |-> FALSE]
    ELSE IF env = "raises" THEN
        [model_loaded |-> FALSE, explainer_set |-> expl, raised |-> TRUE]
    ELSE IF env \in {"missing", "corrupt"} THEN
        [model_loaded |-> FALSE, explainer_set |-> expl, raised |-> FALSE]
    ELSE IF env = "shap_fails" THEN
        [model_loaded |-> TRUE, explainer_set |-> expl, raised |-> TRUE]
    ELSE
        [model_loaded |-> TRUE, explainer_set |-> (expl \/ m = "a2c"),
         raised |-> FALSE]

\* the model_loaded test left out
not_loaded_raises_m(ld) == FALSE

\* "if not self.model_loaded: raise RuntimeError(...)"
not_loaded_raises(ld) == ~ld.model_loaded

\* the actions _select_action_from_logits can return at the A2C call sites
\* (temperature 0.8, min_conf 0.45, min_margin 0.10, sample left True)
A2CActions ==
    UNION {{select_action_from_logits(p, 45, 10, TRUE, d) : d \in Draws(p)} :
            p \in ProbVectors}

\* the "date" a prediction carries: the date of the last data row
LAST_ROW_DATE == "last row date"
\* the "date" of the fallback answer: datetime.now()
NOW_DATE == "now"

\* A2CWrapper.predict_today
a2c_predict_today(ld, data, action) ==
    IF ld.raised \/ not_loaded_raises(ld) THEN [kind |-> "raised"]
    ELSE IF data = "error" THEN [kind |-> "none"]
    ELSE IF data = "short" THEN [kind |-> "none"]
    ELSE IF ~ld.explainer_set THEN [kind |-> "none"]
    ELSE [kind |-> "result",
          body |-> [date |-> LAST_ROW_DATE, action |-> action,
                    probs |-> "probs", xai_features |-> "top_features"]]

\* lines 644-648 with only the English labels recognised
marl_signal_int_m(final_signal_str) ==
    IF final_signal_str \in {"Long"} THEN 0
    ELSE IF final_signal_str \in {"Short"} THEN 1
    ELSE 2

\* MarlWrapper.predict_today, lines 644-648
marl_signal_int(final_signal_str) ==
    IF final_signal_str \in {KO_BUY, KO_STRONG_BUY, "Long"} THEN 0
    ELSE IF final_signal_str \in {KO_SELL, KO_STRONG_SELL, "Short"} THEN 1
    ELSE 2

\* MarlWrapper.predict_today; ja is what learner.select_actions returns
marl_predict_today(ld, data, ja) ==
    IF ld.raised \/ not_loaded_raises(ld) THEN [kind |-> "raised"]
    ELSE IF data = "error" THEN [kind |-> "none"]
    ELSE IF data = "short" THEN [kind |-> "none"]
    ELSE LET final_signal_str == convert_joint_action_to_signal(ja, action_map)
         IN  [kind |-> "result",
              body |-> [date |-> LAST_ROW_DATE,
                        action |-> marl_signal_int(final_signal_str),
                        action_str |-> final_signal_str,
                        joint_action |-> ja,
                        xai_features |-> "top_features"]]

\* A2CWrapper / MarlWrapper .get_historical_signals: the rows themselves are
\* built by the date loop above; here only how the call ends
get_historical_signals(ld, data) ==
    IF ld.raised \/ not_loaded_raises(ld) THEN [kind |-> "raised"]
    ELSE IF data = "error" THEN [kind |-> "empty"]
    ELSE [kind |-> "list"]

-----------------------------------------------------------------------------
(* BE/app/ai_wrapper.py : AIService                                        *)

ACTION_ID_TO_EN == (0 :> "BUY") @@ (1 :> "SELL") @@ (2 :> "HOLD")
ACTION_ID_TO_KO == (0 :> KO_BUY) @@ (1 :> KO_SELL) @@ (2 :> KO_WATCH)

DEFAULT_SYMBOL == "005930.KS"
Symbols == {NONE, DEFAULT_SYMBOL}
DEFAULT_STYLE == "aggressive"
Styles == {DEFAULT_STYLE, "conservative"}
Modes == {"a2c", "marl", "ppo"}

\* the except branch re-raising instead of answering
service_fallback_m(symbol, mode, style, calls, tp, hs) ==
    [kind |-> "raised", error |-> "Exception", mode |-> mode,
     wrapper_calls |-> calls, today_pred |-> tp, hist |-> hs]

\* lines 797-810
service_fallback(symbol, mode, style, calls, tp, hs) ==
    [kind |-> "returned", path |-> "fallback", mode |-> mode,
     wrapper_calls |-> calls, today_pred |-> tp, hist |-> hs,
     body |-> [symbol |-> symbol, model |-> mode, date |-> NOW_DATE,
               action |-> "HOLD", action_ko |-> KO_WATCH,
               investment_style |-> style, explanation |-> "fallback"]]

\* lines 742-795; interpret_model_output is called with keywords it does not
\* take, so the rule-based explanation always stays
service_success(symbol, mode, style, tp, hs) ==
    LET action_id == tp.body.action IN
    [kind |-> "returned", path |-> "success", mode |-> mode,
     wrapper_calls |-> 2, today_pred |-> tp.kind, hist |-> hs.kind,
     body |-> [symbol |-> symbol, model |-> mode, date |-> tp.body.date,
               action |-> ACTION_ID_TO_EN[action_id],
               action_ko |-> ACTION_ID_TO_KO[action_id],
               investment_style |-> style,
               xai_features |-> tp.body.xai_features,
               explanation |-> "RULE"]]

\* AIService.predict_today for mode in ("a2c", "marl"): tp is what the
\* wrapper's predict_today did, hs what its get_historical_signals did
service_predict_today(symbol_in, mode, style, tp, hs) ==
    LET symbol == IF symbol_in = NONE THEN DEFAULT_SYMBOL ELSE symbol_in IN
    IF tp.kind = "raised" THEN
        service_fallback(symbol, mode, style, 1, tp.kind, NONE)
    ELSE IF hs.kind = "raised" THEN
        service_fallback(symbol, mode, style, 2, tp.kind, hs.kind)
    ELSE IF tp.kind = "none" THEN
        service_fallback(symbol, mode, style, 2, tp.kind, hs.kind)
    ELSE service_success(symbol, mode, style, tp, hs)

\* routers/ai.py:52-69, the fields of AIPredictResponse without a default
AIPredictResponseRequired ==
    {"symbol", "model", "date", "action", "action_ko", "confidence",
     "win_rate", "investment_style", "explanation"}

\* response_model validation of POST /ai/predict
validates(body) == AIPredictResponseRequired \subseteq DOMAIN body

SvcIdle ==
    /\ load_env = <<>>
    /\ model_loaded = <<>>
    /\ explainer_set = FALSE
    /\ today = 0
    /\ last_call = [kind |-> NONE]
    /\ svc_result = [kind |-> NONE]
    /\ http_status = 0
    /\ first_served = <<>>

SvcInit ==
    /\ load_env \in [Models -> {"ok", "missing", "corrupt", "raises", "shap_fails"}]
    /\ \A m \in Models : load_env[m] \in LoadEnvs(m)
    /\ model_loaded = [m \in Models |-> FALSE]
    /\ explainer_set = FALSE
    /\ today = 1
    /\ last_call = [kind |-> NONE]
    /\ svc_result = [kind |-> NONE]
    /\ http_status = 0
    /\ first_served = [m \in Models |-> -1]

\* one wrapper.predict_today call and its bookkeeping
WrapperPredictToday(m, tp, ld) ==
    /\ model_loaded' = [model_loaded EXCEPT ![m] = ld.model_loaded]
    /\ explainer_set' = ld.explainer_set
    /\ last_call' = [op |-> "predict_today", model |-> m, day |-> today] @@ tp
    /\ first_served' =
          IF tp.kind = "result" /\ first_served[m] = -1
          THEN [first_served EXCEPT ![m] = tp.body.action] ELSE first_served

\* the wrapper's predict_today, with its inputs drawn
PredictTodayOutcomes(m, ld, data) ==
    IF m = "a2c"
    THEN {a2c_predict_today(ld, data, a) : a \in A2CActions}
    ELSE {marl_predict_today(ld, data, ja) : ja \in JointActions3}

\* GET /ai/signal (get_today_signal)
GetTodaySignal ==
    \E m \in Models, data \in DataStates :
        LET ld == load_model(m, model_loaded[m], explainer_set, load_env[m]) IN
        /\ \E tp \in PredictTodayOutcomes(m, ld, data) :
              /\ WrapperPredictToday(m, tp, ld)
              /\ http_status' = IF tp.kind = "result" THEN 200 ELSE 500
        /\ UNCHANGED <<load_env, today, svc_result>>
        /\ UNCHANGED <<sigVars, selVars, histVars, ldrVars, engineVars>>

\* GET /ai/history (get_history)
GetHistory ==
    \E m \in Models, data \in DataStates :
        LET ld == load_model(m, model_loaded[m], explainer_set, load_env[m])
            hs == get_historical_signals(ld, data)
        IN
        /\ model_loaded' = [model_loaded EXCEPT ![m] = ld.model_loaded]
        /\ explainer_set' = ld.explainer_set
        /\ last_call' = [op |-> "get_historical_signals", model |-> m,
                         day |-> today] @@ hs
        /\ http_status' = IF hs.kind = "raised" THEN 500 ELSE 200
        /\ UNCHANGED <<load_env, today, svc_result, first_served>>
        /\ UNCHANGED <<sigVars, selVars, histVars, ldrVars, engineVars>>

\* one AIService.predict_today call with a supported mode
ServiceCall(symbol, mode, style) ==
    \E data \in DataStates :
        LET ld == load_model(mode, model_loaded[mode], explainer_set,
                             load_env[mode])
            hs == get_historical_signals(ld, data)
        IN
        /\ \E tp \in PredictTodayOutcomes(mode, ld, data) :
              /\ WrapperPredictToday(mode, tp, ld)
              /\ svc_result' =
                    service_predict_today(symbol, mode, style, tp, hs)

\* ai_service.predict_today called directly
ServicePredictToday ==
    \E symbol \in Symbols, mode \in Modes :
        /\ IF mode \notin {"a2c", "marl"}
           THEN /\ svc_result' = [kind |-> "raised", error |-> "ValueError",
                                  mode |-> mode, wrapper_calls |-> 0,
                                  today_pred |-> NONE, hist |-> NONE]
                /\ UNCHANGED <<model_loaded, explainer_set, last_call,
                               first_served>>
           ELSE ServiceCall(symbol, mode, DEFAULT_STYLE)
        /\ UNCHANGED <<load_env, today, http_status>>
        /\ UNCHANGED <<sigVars, selVars, histVars, ldrVars, engineVars>>

\* POST /ai/predict (predict); the request model admits only the two modes
Predict ==
    \E mode \in Models, style \in Styles :
        /\ ServiceCall(DEFAULT_SYMBOL, mode, style)
        /\ http_status' =
              IF svc_result'.kind = "returned" /\ validates(svc_result'.body)
              THEN 200 ELSE 500
        /\ UNCHANGED <<load_env, today>>
        /\ UNCHANGED <<sigVars, selVars, histVars, ldrVars, engineVars>>

\* midnight
Tick ==
    /\ today < MaxDate
    /\ today' = today + 1
    /\ first_served' = [m \in Models |-> -1]
    /\ UNCHANGED <<load_env, model_loaded, explainer_set, last_call, svc_result,
                   http_status>>
    /\ UNCHANGED <<sigVars, selVars, histVars, ldrVars, engineVars>>

-----------------------------------------------------------------------------
(* BE/model_loader.py : ModelLoader; marl_4agent/live_week_simulation.py   *)

\* ModelLoader.load_marl_model: the field afterwards and the value returned
load_marl_model(env) ==
    IF env = "raises" THEN [marl_model |-> "None", returned |-> FALSE]
    ELSE IF env = "missing" THEN [marl_model |-> "random", returned |-> TRUE]
    ELSE IF env = "corrupt" THEN [marl_model |-> "None", returned |-> FALSE]
    ELSE [marl_model |-> "loaded", returned |-> TRUE]

\* predict_marl, lines 273-320: one vote per rule, the sign of the sum
Sign(x) == IF x > 0 THEN 1 ELSE IF x < 0 THEN -1 ELSE 0

predict_marl_votes(rsi, macd, macd_signal, vix) ==
    << IF rsi < 30 THEN 1 ELSE IF rsi > 70 THEN -1 ELSE 0,
       Sign(macd - macd_signal),
       IF vix > 30 THEN -1 ELSE IF vix < 15 THEN 1 ELSE 0 >>

predict_marl(model, rsi, macd, macd_signal, vix) ==
    IF model = "None" THEN [kind |-> "raised", error |-> "ValueError"]
    ELSE LET v == predict_marl_votes(rsi, macd, macd_signal, vix)
             vote_sum == v[1] + v[2] + v[3]
         IN  [kind |-> "result", vote_sum |-> vote_sum,
              signal |-> IF vote_sum > 0 THEN KO_BUY
                         ELSE IF vote_sum < 0 THEN KO_SELL ELSE KO_HOLD]

\* get_model_status, the "marl_3agent" entry
get_model_status(model) == IF model # "None" THEN "available" ELSE "unavailable"

LdrIdle ==
    /\ marl_model = "None"
    /\ sim_weights = NONE

LdrInit ==
    /\ marl_model = "None"
    /\ sim_weights \in {"ok", "missing", "corrupt"}

\* what an entry point leaves alone besides the fields it names
SvcRest == <<load_env, model_loaded, explainer_set, today, svc_result,
             http_status, first_served>>

LoadMarlModel ==
    LET r == load_marl_model(load_env["marl"]) IN
    /\ marl_model' = r.marl_model
    /\ last_call' = [op |-> "load_marl_model", kind |-> "returned",
                     returned |-> r.returned]
    /\ UNCHANGED <<sim_weights, SvcRest>>
    /\ UNCHANGED <<sigVars, selVars, histVars, engineVars>>

PredictMarl ==
    \E rsi \in {20, 50, 80}, macd \in {-1, 0, 1}, vix \in {10, 20, 35} :
        /\ last_call' = [op |-> "predict_marl"]
                        @@ predict_marl(marl_model, rsi, macd, 0, vix)
        /\ UNCHANGED <<marl_model, sim_weights, SvcRest>>
        /\ UNCHANGED <<sigVars, selVars, histVars, engineVars>>

GetModelStatus ==
    /\ last_call' = [op |-> "get_model_status", kind |-> "returned",
                     marl_3agent |-> get_model_status(marl_model)]
    /\ UNCHANGED <<marl_model, sim_weights, SvcRest>>
    /\ UNCHANGED <<sigVars, selVars, histVars, engineVars>>

\* simulate_live_week, lines 118-126: a failed load is reported and the
\* simulation goes on with the learner as constructed
simulate_live_week_weights(w) == IF w = "ok" THEN "loaded" ELSE "random"

SimulateLiveWeek ==
    \E have_dates \in BOOLEAN :
        /\ last_call' =
              IF have_dates
              THEN [op |-> "simulate_live_week", kind |-> "simulated",
                    weights |-> simulate_live_week_weights(sim_weights)]
              ELSE [op |-> "simulate_live_week", kind |-> "returned"]
        /\ UNCHANGED <<marl_model, sim_weights, SvcRest>>
        /\ UNCHANGED <<sigVars, selVars, histVars, engineVars>>

-----------------------------------------------------------------------------
(* The 4-agent variant: AI/marl_4agent/main.py and live_week_simulation.py *)

\* N_AGENTS of the 4-agent variant
N_AGENTS_4 == 4

JointActions4 == [1..N_AGENTS_4 -> ActionIds]

\* main.convert_joint_action_to_signal, lines 81-96
main_convert_joint_action_to_signal(ja, amap) ==
    LET score == SumScore(ja, amap, 1)
    IN  IF score >= 3 THEN KO_STRONG_BUY
        ELSE IF score = 2 \/ score = 1 THEN KO_BUY
        ELSE IF score = 0 THEN KO_HOLD
        ELSE IF score = -1 \/ score = -2 THEN KO_SELL
        ELSE IF score <= -3 THEN KO_STRONG_SELL
        ELSE KO_HOLD

\* simulate_live_week, lines 165-176
vote_sum(ja) ==
    LET vote(a) == IF a = 0 THEN 1 ELSE IF a = 2 THEN -1 ELSE 0
        RECURSIVE Sum(_)
        Sum(i) == IF i > Len(ja) THEN 0 ELSE vote(ja[i]) + Sum(i + 1)
    IN  Sum(1)

\* simulate_live_week, lines 178-187
live_week_signal(ja) ==
    IF vote_sum(ja) >= 2 THEN KO_BUY
    ELSE IF vote_sum(ja) <= -2 THEN KO_SELL
    ELSE KO_HOLD

Sig4Idle ==
    /\ joint_action4 = <<>>
    /\ main_signal = NONE
    /\ live_signal = NONE

Sig4Init ==
    /\ joint_action4 \in JointActions4
    /\ main_signal = NONE
    /\ live_signal = NONE

\* final_signal = convert_joint_action_to_signal(best_joint_action_indices, action_map)
ConvertMain ==
    /\ main_signal' = main_convert_joint_action_to_signal(joint_action4, action_map)
    /\ UNCHANGED <<joint_action4, live_signal>>
    /\ UNCHANGED <<servingVars, exceptSig4>>

\* one day's vote of the weekly simulation
LiveWeekVote ==
    /\ live_signal' = live_week_signal(joint_action4)
    /\ UNCHANGED <<joint_action4, main_signal>>
    /\ UNCHANGED <<servingVars, exceptSig4>>

-----------------------------------------------------------------------------
(* Greedy joint-action selection: MarlWrapper.predict_today,               *)
(* MarlWrapper.get_historical_signals and the backtest loop of             *)
(* marl_4agent/main.py all call learner.select_actions(obs_dict, 0.0)      *)

\* number of distinct observations offered to the learner
NumObservations == 2
\* number of selections followed
MaxSelections == 2
Observations == 1..NumObservations

\* the Q-values one agent's network can produce for one observation
\* (the second one has a tie between Hold and Short)
QVectors == {[a \in ActionIds |-> IF a = 0 THEN 1 ELSE 0],
             [a \in ActionIds |-> IF a = 0 THEN 0 ELSE 1]}

\* fixed weights: what every agent's network answers on every observation
WeightSettings == [Observations -> [1..N_AGENTS_3 -> QVectors]]

\* random.random() in percent, and random.randrange(action_dim)
UniformDraws == {0, 50}

\* QMIX_Learner.select_actions: per agent, with probability epsilon a random
\* action, else the argmax of the agent's Q-values (epsilon in percent)
select_actions(q, eps, u, r) ==
    [i \in 1..N_AGENTS_3 |-> IF u[i] < eps THEN r[i] ELSE ArgMax(q[i])]

\* the call made with the training loop's starting epsilon
greedy_select_m(q, u, r) == select_actions(q, 100, u, r)

\* self.learner.select_actions(obs_dict, epsilon=0.0)
greedy_select(q, u, r) == select_actions(q, 0, u, r)

GrdIdle ==
    /\ weights = <<>>
    /\ greedy_log = <<>>

GrdInit ==
    /\ weights \in WeightSettings
    /\ greedy_log = <<>>

\* one greedy selection on observation obs, followed by the aggregation
GreedySelect ==
    \E obs \in Observations,
       u \in [1..N_AGENTS_3 -> UniformDraws], r \in [1..N_AGENTS_3 -> ActionIds] :
        LET ja == greedy_select(weights[obs], u, r)
        IN  /\ Len(greedy_log) < MaxSelections
            /\ greedy_log' = Append(greedy_log,
                  [obs |-> obs, joint_action |-> ja,
                   signal |-> convert_joint_action_to_signal(ja, action_map)])
            /\ UNCHANGED weights
            /\ UNCHANGED <<servingVars, exceptGrd>>

-----------------------------------------------------------------------------
(* utils.get_top_features_marl                                             *)

\* largest magnitude of one agent's importance for one feature
MaxImp == 1
Importances == (0 - MaxImp)..MaxImp

\* the feature columns each agent attributes to; a name may belong to two agents
AgentCols == << <<"f1", "f2">>, <<"f2", "f3">>, <<"f3", "f4">> >>

\* agent_analyses: per agent the importance_list, pairs (feature, imp) in
\* column order
AnalysesOf(imp) ==
    [i \in 1..N_AGENTS_3 |->
        [c \in 1..Len(AgentCols[i]) |->
            [feature |-> AgentCols[i][c], imp |-> imp[i][c]]]]

AllAnalyses ==
    {AnalysesOf(imp) : imp \in [1..N_AGENTS_3 -> [1..2 -> Importances]]}

RECURSIVE Flatten(_)
Flatten(lists) ==
    IF lists = <<>> THEN <<>> ELSE Head(lists) \o Flatten(Tail(lists))

\* all_importances[feature] = all_importances.get(feature, 0.0) + imp,
\* a dict: keys keep the order of their first insertion
RECURSIVE Accumulate(_, _)
Accumulate(dict, pairs) ==
    IF pairs = <<>> THEN dict
    ELSE LET p == Head(pairs)
             at == {k \in 1..Len(dict) : dict[k].feature = p.feature}
         IN  IF at = {}
             THEN Accumulate(Append(dict, [feature |-> p.feature, imp |-> p.imp]),
                             Tail(pairs))
             ELSE Accumulate([k \in 1..Len(dict) |->
                                 IF k \in at
                                 THEN [feature |-> dict[k].feature,
                                       imp |-> dict[k].imp + p.imp]
                                 ELSE dict[k]],
                             Tail(pairs))

all_importances(analyses) == Accumulate(<<>>, Flatten(analyses))

\* sorted(items, key=lambda item: item[1], reverse=True): a stable sort, equal
\* keys keep their order
sorted_by_importance(items) ==
    LET rank(i) == Cardinality({j \in 1..Len(items) :
                       \/ items[j].imp > items[i].imp
                       \/ (items[j].imp = items[i].imp /\ j < i)})
    IN  [r \in 1..Len(items) |->
            items[CHOOSE i \in 1..Len(items) : rank(i) = r - 1]]

get_top_features_marl(analyses, k) ==
    LET sorted_features == sorted_by_importance(all_importances(analyses))
        n == IF Len(sorted_features) < k THEN Len(sorted_features) ELSE k
    IN  [r \in 1..n |-> [name |-> sorted_features[r].feature,
                         importance |-> sorted_features[r].imp]]

TOP_K == 3

FeatIdle ==
    /\ agent_analyses = <<>>
    /\ top_k = 0
    /\ top_features = <<>>
    /\ feat_done = FALSE

FeatInit ==
    /\ agent_analyses \in AllAnalyses
    /\ top_k \in 1..TOP_K
    /\ top_features = <<>>
    /\ feat_done = FALSE

GetTopFeaturesMarl ==
    /\ ~feat_done
    /\ top_features' = get_top_features_marl(agent_analyses, top_k)
    /\ feat_done' = TRUE
    /\ UNCHANGED <<agent_analyses, top_k>>
    /\ UNCHANGED <<servingVars, exceptFeat>>

-----------------------------------------------------------------------------
(* The prediction paths as sequences of calls: which of them run inside a  *)
(* `with torch.no_grad():` block                                           *)

\* MarlWrapper.predict_today, ai_wrapper.py lines 622-640
WrapperProgram ==
    <<"no_grad_enter", "select_actions", "no_grad_exit",
      "attribute", "attribute", "attribute">>

\* inference.predict_today, lines 143-159: the attribution loop is inside the block
InferenceProgram ==
    <<"no_grad_enter", "select_actions",
      "attribute", "attribute", "attribute", "no_grad_exit">>

\* marl_4agent/main.py, final-day analysis, lines 375-435
MainProgram ==
    <<"no_grad_enter", "get_q_values", "no_grad_exit",
      "no_grad_enter", "mixer", "no_grad_exit",
      "attribute", "attribute", "attribute", "attribute">>

PredictionPaths == {"MarlWrapper.predict_today", "inference.predict_today", "main"}

Program(path) ==
    IF path = "MarlWrapper.predict_today" THEN WrapperProgram
    ELSE IF path = "inference.predict_today" THEN InferenceProgram
    ELSE MainProgram

\* the call the path is about to make ("done" after the last one)
NextCall ==
    IF pred_path = NONE \/ pred_pc > Len(Program(pred_path)) THEN "done"
    ELSE Program(pred_path)[pred_pc]

GradIdle ==
    /\ pred_path = NONE
    /\ pred_pc = 0
    /\ grad_stack = <<>>
    /\ grad_enabled = TRUE
    /\ pred_actions = <<>>
    /\ attr_grad = <<>>

\* a process starts with gradient tracking enabled
GradInit ==
    /\ pred_path \in PredictionPaths
    /\ pred_pc = 1
    /\ grad_stack = <<>>
    /\ grad_enabled = TRUE
    /\ pred_actions = <<>>
    /\ attr_grad = <<>>

\* with torch.no_grad(): entering saves the mode and disables tracking
NoGradEnter ==
    /\ NextCall = "no_grad_enter"
    /\ grad_stack' = <<grad_enabled>> \o grad_stack
    /\ grad_enabled' = FALSE
    /\ pred_pc' = pred_pc + 1
    /\ UNCHANGED <<pred_path, pred_actions, attr_grad>>
    /\ UNCHANGED <<servingVars, exceptGrad>>

\* leaving the block restores the saved mode
NoGradExit ==
    /\ NextCall = "no_grad_exit"
    /\ grad_enabled' = Head(grad_stack)
    /\ grad_stack' = Tail(grad_stack)
    /\ pred_pc' = pred_pc + 1
    /\ UNCHANGED <<pred_path, pred_actions, attr_grad>>
    /\ UNCHANGED <<servingVars, exceptGrad>>

\* actions = learner.select_actions(obs_dict, epsilon=0.0)
SelectActionsCall ==
    /\ NextCall = "select_actions"
    /\ \E ja \in JointActions3 : pred_actions' = ja
    /\ pred_pc' = pred_pc + 1
    /\ UNCHANGED <<pred_path, grad_stack, grad_enabled, attr_grad>>
    /\ UNCHANGED <<servingVars, exceptGrad>>

\* q_vals_all_agents.append(agent.get_q_values(obs_tensors[i])), all agents
GetQValues ==
    /\ NextCall = "get_q_values"
    /\ pred_pc' = pred_pc + 1
    /\ UNCHANGED <<pred_path, grad_stack, grad_enabled, pred_actions, attr_grad>>
    /\ UNCHANGED <<servingVars, exceptGrad>>

\* all_q_totals = learner.mixer(agent_q_batch, state_batch); the best joint
\* action is read off the result
MixerCall ==
    /\ NextCall = "mixer"
    /\ \E ja \in JointActions4 : pred_actions' = ja
    /\ pred_pc' = pred_pc + 1
    /\ UNCHANGED <<pred_path, grad_stack, grad_enabled, attr_grad>>
    /\ UNCHANGED <<servingVars, exceptGrad>>

\* agent.get_prediction_with_reason(obs, ...) for the next agent
Attribute ==
    /\ NextCall = "attribute"
    /\ attr_grad' = Append(attr_grad, grad_enabled)
    /\ pred_pc' = pred_pc + 1
    /\ UNCHANGED <<pred_path, grad_stack, grad_enabled, pred_actions>>
    /\ UNCHANGED <<servingVars, exceptGrad>>

-----------------------------------------------------------------------------
(* Overriding dummy_env.current_step before building an observation        *)

\* largest number of rows of the feature frame
MaxRows == 16

\* norm_features.iloc[-50:]
TAIL_ROWS == 50

Min(a, b) == IF a < b THEN a ELSE b

\* MARLStockEnv.reset(): fewer rows than one window is InsufficientHistoryError
env_reset_raises(rows) == rows < WINDOW_SIZE

\* dummy_env.current_step = len(dummy_env.df) - WINDOW_SIZE - 1
inference_current_step(rows) == rows - WINDOW_SIZE - 1

\* if len(norm_features) < WINDOW_SIZE: return None
wrapper_rejects(rows) == rows < WINDOW_SIZE

\* if prev_idx < WINDOW_SIZE - 1: continue
history_skips(prev_idx) == prev_idx < WINDOW_SIZE - 1

WinIdle ==
    /\ n_rows = 0
    /\ win_path = NONE
    /\ win_set = FALSE
    /\ win_rows = 0
    /\ win_step = 0
    /\ win_outcome = NONE

WinInit ==
    /\ n_rows \in 0..MaxRows
    /\ win_path = NONE
    /\ win_set = FALSE
    /\ win_rows = 0
    /\ win_step = 0
    /\ win_outcome = NONE

\* MarlWrapper.predict_today, lines 610-620
WrapperOverride ==
    /\ win_path' = "MarlWrapper.predict_today"
    /\ win_rows' = n_rows
    /\ IF wrapper_rejects(n_rows)
       THEN /\ win_set' = FALSE
            /\ win_step' = 0
            /\ win_outcome' = "returned None"
       ELSE /\ win_set' = TRUE
            /\ win_step' = n_rows - WINDOW_SIZE
            /\ win_outcome' = "observed"
    /\ UNCHANGED n_rows
    /\ UNCHANGED <<servingVars, exceptWin>>

\* MarlWrapper.get_historical_signals, lines 520-531, for one target date:
\* idx is the row of the date, -1 when the date is not in the index
HistoryOverride ==
    \E idx \in -1..(n_rows - 1) :
        /\ win_path' = "MarlWrapper.get_historical_signals"
        /\ win_rows' = n_rows
        /\ IF idx = -1 \/ history_skips(idx - 1)
           THEN /\ win_set' = FALSE
                /\ win_step' = 0
                /\ win_outcome' = "skipped"
           ELSE /\ win_set' = TRUE
                /\ win_step' = (idx - 1) - WINDOW_SIZE + 1
                /\ win_outcome' = "observed"
        /\ UNCHANGED n_rows
        /\ UNCHANGED <<servingVars, exceptWin>>

\* inference.predict_today, lines 121-136: the environment holds the last
\* TAIL_ROWS rows; no length test precedes the override
InferenceOverride ==
    LET rows == Min(n_rows, TAIL_ROWS)
    IN  /\ win_path' = "inference.predict_today"
        /\ win_rows' = rows
        /\ IF env_reset_raises(rows)
           THEN /\ win_set' = FALSE
                /\ win_step' = 0
                /\ win_outcome' = "raised"
           ELSE /\ win_set' = TRUE
                /\ win_step' = inference_current_step(rows)
                /\ win_outcome' = "observed"
        /\ UNCHANGED n_rows
        /\ UNCHANGED <<servingVars, exceptWin>>

-----------------------------------------------------------------------------
(* The training loop of AI/marl_4agent/main.py, lines 254-299, with the    *)
(* replay buffer and the learner it drives                                 *)

\* replay buffer capacity and minibatch size
BUFFER_SIZE == 3
BATCH_SIZE == 2
\* target-network sync period, in global steps
TARGET_UPDATE_FREQ == 3
NUM_EPISODES == 2
\* number of loop iterations followed from the starting point
MaxRun == 8

\* epsilon = max(0.01, 1.0 - total_steps / 50000), kept as a numerator over
\* EPS_DECAY_STEPS: 0.01 is EPS_FLOOR / EPS_DECAY_STEPS
EPS_DECAY_STEPS == 50000
EPS_FLOOR == 500

\* floor left out
epsilon_schedule_m(t) == EPS_DECAY_STEPS - t

epsilon_schedule(t) ==
    IF EPS_DECAY_STEPS - t > EPS_FLOOR THEN EPS_DECAY_STEPS - t ELSE EPS_FLOOR

\* the period test made on the step count before this step
update_due_m(t) == (t - 1) % TARGET_UPDATE_FREQ = 0

\* if total_steps % TARGET_UPDATE_FREQ == 0
update_due(t) == t % TARGET_UPDATE_FREQ = 0

\* a full buffer refuses the new transition
buffer_add_m(buf, tr) ==
    IF Len(buf) < BUFFER_SIZE THEN Append(buf, tr) ELSE buf

\* ReplayBuffer.add: append; once full, the oldest entry is evicted first
buffer_add(buf, tr) ==
    IF Len(buf) < BUFFER_SIZE THEN Append(buf, tr) ELSE Append(Tail(buf), tr)

\* ReplayBuffer.sample: a uniformly drawn minibatch of BATCH_SIZE entries
buffer_samples(buf) ==
    {S \in SUBSET {buf[k].id : k \in 1..Len(buf)} : Cardinality(S) = BATCH_SIZE}

\* learner.train(buffer) takes a gradient step once a minibatch can be drawn
train_ready(buf) == Len(buf) >= BATCH_SIZE

\* the number of gradient steps taken during the first t loop iterations
online_at(t) == IF t < BATCH_SIZE THEN 0 ELSE t - BATCH_SIZE + 1

\* loop states the run is followed from: the start of training, and shortly
\* before the schedule reaches its floor
StartSteps == {0, EPS_DECAY_STEPS - EPS_FLOOR - 3}

\* the buffer after t iterations of one episode
BufferAt(t) ==
    LET n == Min(t, BUFFER_SIZE)
    IN  [k \in 1..n |-> [id |-> t - n + k, done |-> FALSE]]

TrainIdle ==
    /\ start_steps = 0
    /\ total_steps = 0
    /\ i_episode = 0
    /\ train_pc = NONE
    /\ epsilon = -1
    /\ buffer = <<>>
    /\ last_sample = {}
    /\ online_version = 0
    /\ target_version = 0
    /\ sync_count = 0

TrainInit ==
    /\ start_steps \in StartSteps
    /\ total_steps = start_steps
    /\ i_episode = 0
    /\ train_pc = IF start_steps = 0 THEN "reset" ELSE "step"
    /\ epsilon = IF start_steps = 0 THEN -1 ELSE epsilon_schedule(start_steps)
    /\ buffer = BufferAt(start_steps)
    /\ last_sample \in (IF train_ready(buffer) THEN buffer_samples(buffer) ELSE {{}})
    /\ online_version = online_at(start_steps)
    /\ target_version =
          online_at((start_steps \div TARGET_UPDATE_FREQ) * TARGET_UPDATE_FREQ)
    /\ sync_count = start_steps \div TARGET_UPDATE_FREQ

\* for i_episode in range(NUM_EPISODES): train_env.reset(), done = False
EpisodeReset ==
    /\ train_pc = "reset"
    /\ i_episode < NUM_EPISODES
    /\ train_pc' = "step"
    /\ UNCHANGED <<start_steps, total_steps, i_episode, epsilon, buffer, last_sample,
                   online_version, target_version, sync_count>>
    /\ UNCHANGED <<servingVars, exceptTrain>>

\* one iteration of `while not done`, lines 270-291
TrainStep ==
    \E done \in BOOLEAN :
        LET t   == total_steps + 1
            buf == buffer_add(buffer, [id |-> t, done |-> done])
            ver == IF train_ready(buf) THEN online_version + 1 ELSE online_version
        IN  /\ train_pc = "step"
            /\ total_steps < start_steps + MaxRun
            /\ total_steps' = t
            /\ epsilon' = epsilon_schedule(t)
            /\ buffer' = buf
            /\ IF train_ready(buf)
               THEN last_sample' \in buffer_samples(buf)
               ELSE last_sample' = last_sample
            /\ online_version' = ver
            /\ IF update_due(t)
               THEN /\ target_version' = ver
                    /\ sync_count' = sync_count + 1
               ELSE UNCHANGED <<target_version, sync_count>>
            /\ IF done
               THEN /\ i_episode' = i_episode + 1
                    /\ train_pc' = "reset"
               ELSE UNCHANGED <<i_episode, train_pc>>
            /\ UNCHANGED start_steps
            /\ UNCHANGED <<servingVars, exceptTrain>>

\* the episode loop ends: learner.save_model('qmix_model.pth')
FinishTraining ==
    /\ train_pc = "reset"
    /\ i_episode = NUM_EPISODES
    /\ train_pc' = "finished"
    /\ UNCHANGED <<start_steps, total_steps, i_episode, epsilon, buffer, last_sample,
                   online_version, target_version, sync_count>>
    /\ UNCHANGED <<servingVars, exceptTrain>>

-----------------------------------------------------------------------------
(* The mixing network and the final-day analysis of marl_4agent/main.py,   *)
(* lines 371-437                                                           *)

\* largest per-agent action value fed to the mixer
MaxQ == 0
QLevels == -1..MaxQ

\* raw hypernetwork outputs for one agent's mixing weight, before the
\* non-negativity constraint, and the state-dependent bias
HyperLevels == {-1, 0, 2}
BiasLevels == {1}

\* the mixing weights are used as generated
mixer_m(v, h, b) ==
    LET RECURSIVE Sum(_)
        Sum(i) == IF i = 0 THEN 0 ELSE h[i] * v[i] + Sum(i - 1)
    IN  Sum(Len(v)) + b

\* learner.mixer(agent_qs, state): the per-agent values combined with the
\* non-negative weights |h| generated from the global state, plus a bias
mixer(v, h, b) ==
    LET RECURSIVE Sum(_)
        Sum(i) == IF i = 0 THEN 0 ELSE Abs(h[i]) * v[i] + Sum(i - 1)
    IN  Sum(Len(v)) + b

\* the Q-values one agent reports for the final observation
\* (ties in the second, a negative value in the third)
AgentQTables == {[a \in ActionIds |-> IF a = 0 THEN 1 ELSE 0],
                 [a \in ActionIds |-> IF a = 0 THEN 0 ELSE 1],
                 [a \in ActionIds |-> a - 1]}

\* action_tuples: the four nested loops enumerate the joint actions in
\* lexicographic order; position n (from 0) holds these indices
action_tuple(n) ==
    <<(n \div 27) % 3, (n \div 9) % 3, (n \div 3) % 3, n % 3>>

NumTuples == 81

\* torch.stack([q0, q1, q2, q3]) for one joint action
agent_q_input(q, tuple) == [i \in 1..N_AGENTS_4 |-> q[i][tuple[i]]]

\* all_q_totals = learner.mixer(agent_q_batch, state_batch)
all_q_totals(q, h, b) ==
    [n \in 0..(NumTuples - 1) |-> mixer(agent_q_input(q, action_tuple(n)), h, b)]

\* all_q_totals.argmin()
best_joint_action_idx_flat_m(totals) ==
    CHOOSE n \in DOMAIN totals :
        /\ \A m \in DOMAIN totals : totals[m] >= totals[n]
        /\ \A m \in DOMAIN totals : totals[m] = totals[n] => n <= m

\* all_q_totals.argmax(): the first position holding the maximum
best_joint_action_idx_flat(totals) == ArgMax(totals)

\* each agent's own greedy action (the action_idx of get_prediction_with_reason)
individual_argmax(q) == [i \in 1..N_AGENTS_4 |-> ArgMax(q[i])]

MixIdle ==
    /\ hyper_w = <<>>
    /\ hyper_b = 0
    /\ mix_op = NONE
    /\ v_lo = <<>>
    /\ v_hi = <<>>
    /\ q_total_lo = 0
    /\ q_total_hi = 0
    /\ q_vals = <<>>
    /\ best_joint_action = <<>>
    /\ best_q_total = 0
    /\ own_joint_action = <<>>
    /\ own_q_total = 0

\* fixed mixer weights and a fixed global state
MixInit ==
    /\ hyper_w \in [1..N_AGENTS_4 -> HyperLevels]
    /\ hyper_b \in BiasLevels
    /\ mix_op = NONE
    /\ v_lo = <<>>
    /\ v_hi = <<>>
    /\ q_total_lo = 0
    /\ q_total_hi = 0
    /\ q_vals = <<>>
    /\ best_joint_action = <<>>
    /\ best_q_total = 0
    /\ own_joint_action = <<>>
    /\ own_q_total = 0

\* the mixer applied once to two value vectors for the same global state,
\* the second at least the first in every component
MixerEval ==
    \E v \in [1..N_AGENTS_4 -> QLevels], w \in [1..N_AGENTS_4 -> QLevels] :
        /\ mix_op = NONE
        /\ \A i \in 1..N_AGENTS_4 : v[i] <= w[i]
        /\ mix_op' = "mixer"
        /\ v_lo' = v
        /\ v_hi' = w
        /\ q_total_lo' = mixer(v, hyper_w, hyper_b)
        /\ q_total_hi' = mixer(w, hyper_w, hyper_b)
        /\ UNCHANGED <<hyper_w, hyper_b, q_vals, best_joint_action, best_q_total,
                       own_joint_action, own_q_total>>
        /\ UNCHANGED <<servingVars, exceptMix>>

\* final-day analysis: the exhaustive argmax over the 81 joint actions, and
\* the agents' own greedy actions collected in agent_analyses
FinalDayAnalysis ==
    \E q \in [1..N_AGENTS_4 -> AgentQTables] :
        LET totals == all_q_totals(q, hyper_w, hyper_b)
            flat   == best_joint_action_idx_flat(totals)
            own    == individual_argmax(q)
        IN  /\ mix_op = NONE
            /\ mix_op' = "final_day"
            /\ q_vals' = q
            /\ best_joint_action' = action_tuple(flat)
            /\ best_q_total' = totals[flat]
            /\ own_joint_action' = own
            /\ own_q_total' = mixer(agent_q_input(q, own), hyper_w, hyper_b)
            /\ UNCHANGED <<hyper_w, hyper_b, v_lo, v_hi, q_total_lo, q_total_hi>>
            /\ UNCHANGED <<servingVars, exceptMix>>

-----------------------------------------------------------------------------
(* BE/main.py: the verify_api_key dependency of the protected endpoints    *)

ApiKeys == {"", "k1", "k2", "k3"}

\* the endpoints declared with dependencies=[Depends(verify_api_key)]
ProtectedEndpoints ==
    {"/auth/google", "/onboarding/complete", "/portfolio/holdings",
     "/predict/stable", "/predict/aggressive", "/predict/{mode}", "/ai/history"}

\* x_api_key: str = Header(..., alias="X-API-Key") is a required parameter:
\* a request without the header is answered 422 before the body runs; the
\* body raises 401 when API_KEY is set and differs from the header
verify_api_key(key, header) ==
    IF header = NONE THEN 422
    ELSE IF key # "" /\ header # key THEN 401
    ELSE 200

AuthIdle ==
    /\ api_key = ""
    /\ req_endpoint = NONE
    /\ req_header = NONE
    /\ auth_status = 0

AuthInit ==
    /\ api_key \in ApiKeys
    /\ req_endpoint = NONE
    /\ req_header = NONE
    /\ auth_status = 0

\* one request to a protected endpoint, with or without the header
ProtectedRequest ==
    \E e \in ProtectedEndpoints, h \in ApiKeys \cup {NONE} :
        /\ req_endpoint' = e
        /\ req_header' = h
        /\ auth_status' = verify_api_key(api_key, h)
        /\ UNCHANGED api_key
        /\ UNCHANGED <<servingVars, exceptAuth>>

-----------------------------------------------------------------------------
(* BE/main.py: google_auth and onboarding_complete over the users and      *)
(* portfolios tables of BE/database.py                                       *)

MaxCalls == 3

Emails == {"a@x", "b@x"}
\* GoogleAuthRequest.google_id is Optional (NONE: not sent)
GoogleIds == {NONE, "g1", "g2"}

AcctIdle ==
    /\ users = <<>>
    /\ portfolios = <<>>
    /\ auth_log = <<>>

AcctInit == AcctIdle

\* google_auth(payload): look the user up by email, create it or refresh its
\* google_id, ensure the default portfolio, answer is_new_user and
\* needs_onboarding.  users.google_id is UNIQUE: a commit that would store a
\* google_id another row holds raises IntegrityError (answer 500, nothing
\* stored).
google_auth ==
    \E e \in Emails, g \in GoogleIds :
        LET found == {i \in 1..Len(users) : users[i].email = e}
            taken(i) == g # NONE /\ \E j \in 1..Len(users) :
                                       j # i /\ users[j].google_id = g
            fail == [op |-> "google_auth", email |-> e, status |-> 500,
                     is_new_user |-> FALSE, needs_onboarding |-> FALSE, id |-> 0]
        IN /\ Len(auth_log) < MaxCalls
           /\ IF found = {}
              THEN IF taken(0)
                   THEN /\ auth_log' = Append(auth_log, fail)
                        /\ UNCHANGED <<users, portfolios>>
                   ELSE LET id == Len(users) + 1
                        IN /\ users' = Append(users,
                                  [email |-> e, google_id |-> g,
                                   onboarding_completed |-> FALSE])
                           /\ portfolios' =
                                  IF \E k \in 1..Len(portfolios) : portfolios[k] = id
                                  THEN portfolios ELSE Append(portfolios, id)
                           /\ auth_log' = Append(auth_log,
                                  [op |-> "google_auth", email |-> e, status |-> 200,
                                   is_new_user |-> TRUE, needs_onboarding |-> TRUE,
                                   id |-> id])
              ELSE LET id == CHOOSE i \in found : \A j \in found : i <= j
                       change == g # NONE /\ users[id].google_id # g
                   IN IF change /\ taken(id)
                      THEN /\ auth_log' = Append(auth_log, fail)
                           /\ UNCHANGED <<users, portfolios>>
                      ELSE /\ users' = IF change
                                       THEN [users EXCEPT ![id].google_id = g]
                                       ELSE users
                           /\ portfolios' =
                                  IF \E k \in 1..Len(portfolios) : portfolios[k] = id
                                  THEN portfolios ELSE Append(portfolios, id)
                           /\ auth_log' = Append(auth_log,
                                  [op |-> "google_auth", email |-> e, status |-> 200,
                                   is_new_user |-> FALSE,
                                   needs_onboarding |-> ~users[id].onboarding_completed,
                                   id |-> id])
           /\ UNCHANGED <<servingVars, exceptAcct>>

\* onboarding_complete(payload): 404 for an unknown user id; otherwise create
\* or reset the default portfolio and set onboarding_completed
onboarding_complete ==
    \E uid \in 1..Cardinality(Emails) :
        /\ Len(auth_log) < MaxCalls
        /\ IF uid > Len(users)
           THEN /\ auth_log' = Append(auth_log,
                       [op |-> "onboarding_complete", email |-> NONE, status |-> 404,
                        is_new_user |-> FALSE, needs_onboarding |-> FALSE, id |-> uid])
                /\ UNCHANGED <<users, portfolios>>
           ELSE /\ users' = [users EXCEPT ![uid].onboarding_completed = TRUE]
                /\ portfolios' =
                       IF \E k \in 1..Len(portfolios) : portfolios[k] = uid
                       THEN portfolios ELSE Append(portfolios, uid)
                /\ auth_log' = Append(auth_log,
                       [op |-> "onboarding_complete", email |-> users[uid].email,
                        status |-> 200, is_new_user |-> FALSE,
                        needs_onboarding |-> FALSE, id |-> uid])
        /\ UNCHANGED <<servingVars, exceptAcct>>

-----------------------------------------------------------------------------
(* BE/app/crud.py bulk_create_stock_prices and                              *)
(* BE/app/stock_service.py fetch_and_save_historical_data                    *)

MaxSaves == 3
MaxBatch == 2
MaxPriceDate == 2

PriceSymbols == {"A", "B"}
PriceDates == 1..MaxPriceDate
PriceKeys == PriceSymbols \X PriceDates

\* the loop of step 3 without the registration of the keys it adds
RECURSIVE new_records_m(_, _)
new_records_m(list, existing_keys) ==
    IF list = <<>> THEN <<>>
    ELSE IF Head(list) \notin existing_keys
         THEN <<Head(list)>> \o new_records_m(Tail(list), existing_keys)
         ELSE new_records_m(Tail(list), existing_keys)

\* step 3 of bulk_create_stock_prices: keep the entries whose key is not in
\* existing_keys, registering each kept key
RECURSIVE new_records(_, _)
new_records(list, existing_keys) ==
    IF list = <<>> THEN <<>>
    ELSE IF Head(list) \notin existing_keys
         THEN <<Head(list)>>
              \o new_records(Tail(list), existing_keys \cup {Head(list)})
         ELSE new_records(Tail(list), existing_keys)

RECURSIVE add_all(_, _)
add_all(tbl, recs) ==
    IF recs = <<>> THEN tbl
    ELSE add_all([tbl EXCEPT ![Head(recs)] = @ + 1], Tail(recs))

\* bulk_create_stock_prices(db, stock_prices): the table after the call and
\* the returned count
bulk_create_stock_prices(tbl, list) ==
    IF list = <<>> THEN [table |-> tbl, count |-> 0]
    ELSE LET symbols == {list[i][1] : i \in 1..Len(list)}
             dates == {list[i][2] : i \in 1..Len(list)}
             existing_keys == {k \in PriceKeys :
                                 tbl[k] > 0 /\ k[1] \in symbols /\ k[2] \in dates}
             recs == new_records(list, existing_keys)
         IN [table |-> add_all(tbl, recs), count |-> Len(recs)]

\* fetch_and_save_historical_data(db, symbol): df is the fetched frame's index;
\* rows not newer than the symbol's latest stored date are skipped
fetch_and_save_historical_data(tbl, symbol, df) ==
    LET stored == {d \in PriceDates : tbl[<<symbol, d>>] > 0}
        latest_date == IF stored = {} THEN 0
                       ELSE CHOOSE d \in stored : \A x \in stored : x <= d
        newer(d) == ~(latest_date # 0 /\ d <= latest_date)
        list == [i \in 1..Len(SelectSeq(df, newer)) |->
                    <<symbol, SelectSeq(df, newer)[i]>>]
    IN IF df = <<>> THEN [table |-> tbl, count |-> 0]
       ELSE bulk_create_stock_prices(tbl, list)

SeqsUpTo(S, n) == UNION {[1..m -> S] : m \in 0..n}

RowCount(tbl) == LET RECURSIVE Sum(_)
                     Sum(K) == IF K = {} THEN 0
                               ELSE LET k == CHOOSE x \in K : TRUE
                                    IN tbl[k] + Sum(K \ {k})
                 IN Sum(PriceKeys)

PriceIdle ==
    /\ stock_prices = [k \in PriceKeys |-> 0]
    /\ saves = 0
    /\ save_call = [op |-> NONE]

PriceInit == PriceIdle

BulkCreate ==
    \E list \in SeqsUpTo(PriceKeys, MaxBatch) :
        LET r == bulk_create_stock_prices(stock_prices, list)
        IN /\ saves < MaxSaves
           /\ saves' = saves + 1
           /\ stock_prices' = r.table
           /\ save_call' = [op |-> "bulk_create_stock_prices", input |-> list,
                            count |-> r.count,
                            inserted |-> RowCount(r.table) - RowCount(stock_prices),
                            repeated |-> /\ save_call.op = "bulk_create_stock_prices"
                                         /\ save_call.input = list]
           /\ UNCHANGED <<servingVars, exceptPrice>>

FetchAndSave ==
    \E symbol \in PriceSymbols, df \in SeqsUpTo(PriceDates, MaxBatch) :
        LET r == fetch_and_save_historical_data(stock_prices, symbol, df)
        IN /\ saves < MaxSaves
           /\ saves' = saves + 1
           /\ stock_prices' = r.table
           /\ save_call' = [op |-> "fetch_and_save_historical_data",
                            input |-> <<symbol, df>>,
                            count |-> r.count,
                            inserted |-> RowCount(r.table) - RowCount(stock_prices),
                            repeated |-> /\ save_call.op = "fetch_and_save_historical_data"
                                         /\ save_call.input = <<symbol, df>>]
           /\ UNCHANGED <<servingVars, exceptPrice>>

-----------------------------------------------------------------------------
(* BE/app/ai_wrapper.py : A2CWrapper.get_historical_signals, lines 222-290, *)
(* entered with the model loaded.  raw_df is original_prices; df is raw_df  *)
(* without its first df_dropped rows (indicator warm-up).                    *)

MaxDropped == 1

\* df.index
DfIndex(prices, k) == {d \in Index(prices) : GetLoc(prices, d) >= k}

\* the window sliced one row later, ending at the target row
prev_window_m(prev_date_loc) ==
    (prev_date_loc - (WINDOW_SIZE - 1) + 1)..(prev_date_loc + 1)

\* df.iloc[prev_date_loc - (window_size - 1): prev_date_loc + 1], as row
\* positions of df
prev_window(prev_date_loc) ==
    (prev_date_loc - (WINDOW_SIZE - 1))..prev_date_loc

\* the iteration never moving on
next_target_date_m(target) == target

\* target_date += timedelta(days=1)
next_target_date(target) == target + 1

A2cIdle ==
    /\ hist_kind = "MarlWrapper"
    /\ df_dropped = 0
    /\ hist_window = {}

A2cInit ==
    /\ hist_kind \in {"MarlWrapper", "A2CWrapper"}
    /\ df_dropped \in 0..MaxDropped
    /\ hist_kind = "MarlWrapper" => df_dropped = 0
    /\ hist_window = {}

\* one iteration of the while loop, lines 235-283; action is what
\* _select_action_from_logits returns
A2CHistStep ==
    /\ hist_kind = "A2CWrapper"
    /\ ~hist_done
    /\ target_date <= yesterday
    /\ LET in_df == target_date \in DfIndex(original_prices, df_dropped)
           idx == GetLoc(original_prices, target_date) - df_dropped
           prev_date_loc == idx - 1
       IN IF ~in_df \/ idx < WINDOW_SIZE - 1
          THEN \* lines 238-245
               /\ target_date' = next_target_date(target_date)
               /\ UNCHANGED <<cumulative_return, results, hist_done, hist_window>>
          ELSE IF idx = 0
          THEN \* df.index[df.index < target_date][-1] raises IndexError:
               \* lines 292-297 return []
               /\ results' = <<>>
               /\ hist_done' = TRUE
               /\ UNCHANGED <<target_date, cumulative_return, hist_window>>
          ELSE IF prev_date_loc < WINDOW_SIZE - 1
          THEN \* lines 249-251
               /\ target_date' = next_target_date(target_date)
               /\ UNCHANGED <<cumulative_return, results, hist_done, hist_window>>
          ELSE \E action \in 0..2 :
               LET raw_loc == GetLoc(original_prices, target_date)
                   curr_price == original_prices[target_date]
                   prev_price == original_prices[RowDay(original_prices, raw_loc - 1)]
                   daily_pct_change == Frac(curr_price - prev_price, prev_price)
                   strategy_daily == FMul(FInt(pos_of[action]), daily_pct_change)
                   cum == compound(cumulative_return, strategy_daily)
               IN /\ hist_window' =
                        {RowDay(original_prices, k + df_dropped) :
                            k \in prev_window(prev_date_loc)}
                  /\ cumulative_return' = cum
                  /\ results' = Append(results,
                        [date |-> target_date, signal |-> action,
                         daily_return |-> daily_pct_change,
                         strategy_return |-> cum])
                  /\ target_date' = next_target_date(target_date)
                  /\ UNCHANGED hist_done
    /\ UNCHANGED <<original_prices, start_dt, current_step, signal_log>>
    /\ UNCHANGED <<hist_kind, df_dropped>>
    /\ UNCHANGED <<sigVars, selVars, svcVars, ldrVars, exceptA2c>>

-----------------------------------------------------------------------------
(* BE/app/ai_wrapper.py : the working directory in load_model,              *)
(* predict_today and get_historical_signals of both wrappers.  A call is     *)
(* original_cwd = os.getcwd(); os.chdir(DIR); try: body finally:             *)
(* os.chdir(original_cwd), preceded in predict_today and                     *)
(* get_historical_signals by self.load_model().                              *)

Threads == {1, 2}
Wrappers == {"A2CWrapper", "MarlWrapper"}
WrapperMethods == {"load_model", "predict_today", "get_historical_signals"}

\* the directory the server was started in
SERVER_CWD == "/srv/BE"
A2C_DIR == "AI/a2c_11.29"
MARL_DIR == "AI/marl_3agent"
ModelDir(w) == IF w = "A2CWrapper" THEN A2C_DIR ELSE MARL_DIR

\* how the try block of load_model can end
LoadExits == {"loaded", "weights missing", "propagated exception"}
\* how the try block of predict_today / get_historical_signals can end
BodyExits == {"normal return", "early return", "swallowed exception"}

\* an early return leaving without the finally clause
after_try_m(exit) ==
    IF exit \in {"weights missing", "early return"} THEN "left" ELSE "finally"

\* every way out of the try block passes through finally
after_try(exit) == "finally"

IdleCall == [pc |-> "idle", wrapper |-> NONE, method |-> NONE,
             original_cwd |-> NONE, exit |-> NONE]

CwdIdle ==
    /\ cwd = SERVER_CWD
    /\ overlap = FALSE
    /\ wrapper_loaded = <<>>
    /\ call = <<>>
    /\ last_exit = NONE

CwdInit ==
    /\ cwd = SERVER_CWD
    /\ overlap = FALSE
    /\ wrapper_loaded = [w \in Wrappers |-> FALSE]
    /\ call = [t \in Threads |-> IdleCall]
    /\ last_exit = NONE

\* the handlers are synchronous and served from a thread pool
CwdPoolInit ==
    /\ cwd = SERVER_CWD
    /\ overlap = TRUE
    /\ wrapper_loaded = [w \in Wrappers |-> FALSE]
    /\ call = [t \in Threads |-> IdleCall]
    /\ last_exit = NONE

\* a request thread enters a wrapper method; "if self.model_loaded: return"
\* skips the load
WrapperCall ==
    \E t \in Threads, w \in Wrappers, m \in WrapperMethods :
        /\ call[t].pc = "idle"
        /\ overlap \/ \A u \in Threads : call[u].pc = "idle"
        /\ ~(m = "load_model" /\ wrapper_loaded[w])
        /\ call' = [call EXCEPT ![t] =
                      [pc |-> IF wrapper_loaded[w] THEN "main:getcwd"
                              ELSE "load:getcwd",
                       wrapper |-> w, method |-> m,
                       original_cwd |-> NONE, exit |-> NONE]]
        /\ UNCHANGED <<cwd, overlap, wrapper_loaded, last_exit>>
        /\ UNCHANGED <<servingVars, exceptCwd>>

\* original_cwd = os.getcwd()
GetCwd ==
    \E t \in Threads :
        /\ call[t].pc \in {"load:getcwd", "main:getcwd"}
        /\ call' = [call EXCEPT ![t].original_cwd = cwd,
                                ![t].pc = IF call[t].pc = "load:getcwd"
                                          THEN "load:chdir" ELSE "main:chdir"]
        /\ UNCHANGED <<cwd, overlap, wrapper_loaded, last_exit>>
        /\ UNCHANGED <<servingVars, exceptCwd>>

\* os.chdir(A2C_DIR) / os.chdir(MARL_DIR)
Chdir ==
    \E t \in Threads :
        /\ call[t].pc \in {"load:chdir", "main:chdir"}
        /\ cwd' = ModelDir(call[t].wrapper)
        /\ call' = [call EXCEPT ![t].pc = IF call[t].pc = "load:chdir"
                                          THEN "load:try" ELSE "main:try"]
        /\ UNCHANGED <<overlap, wrapper_loaded, last_exit>>
        /\ UNCHANGED <<servingVars, exceptCwd>>

\* the try block runs to one of its exits
TryBlock ==
    \E t \in Threads :
        /\ call[t].pc \in {"load:try", "main:try"}
        /\ \E exit \in IF call[t].pc = "load:try" THEN LoadExits ELSE BodyExits :
              /\ wrapper_loaded' =
                    IF exit = "loaded"
                    THEN [wrapper_loaded EXCEPT ![call[t].wrapper] = TRUE]
                    ELSE wrapper_loaded
              /\ IF after_try(exit) = "finally"
                 THEN /\ call' = [call EXCEPT
                            ![t].exit = exit,
                            ![t].pc = IF call[t].pc = "load:try"
                                      THEN "load:finally" ELSE "main:finally"]
                      /\ UNCHANGED last_exit
                 ELSE /\ call' = [call EXCEPT ![t] = IdleCall]
                      /\ last_exit' = IF overlap THEN last_exit ELSE exit
        /\ UNCHANGED <<cwd, overlap>>
        /\ UNCHANGED <<servingVars, exceptCwd>>

\* finally: os.chdir(original_cwd); after load_model the caller goes on to its
\* own block unless load_model raised, was the method called, or left
\* model_loaded False (RuntimeError)
Finally ==
    \E t \in Threads :
        /\ call[t].pc \in {"load:finally", "main:finally"}
        /\ cwd' = call[t].original_cwd
        /\ last_exit' = IF overlap THEN last_exit ELSE call[t].exit
        /\ call' = [call EXCEPT ![t] =
                      IF /\ call[t].pc = "load:finally"
                         /\ call[t].exit = "loaded"
                         /\ call[t].method # "load_model"
                      THEN [call[t] EXCEPT !.pc = "main:getcwd", !.exit = NONE,
                                           !.original_cwd = NONE]
                      ELSE IdleCall]
        /\ UNCHANGED <<overlap, wrapper_loaded>>
        /\ UNCHANGED <<servingVars, exceptCwd>>

-----------------------------------------------------------------------------
(* BE/app/crud.py : add_holding and sell_holding for one user               *)

MaxTrades == 3
MaxQuantity == 2

HoldingSymbols == {"005930", "000660"}
TradePrices == {1, 3}
TradeQuantities == 1..MaxQuantity

\* get_portfolio_by_user creates the missing portfolio with this capital
DEFAULT_CAPITAL == 10000000

\* get_portfolio_by_user(db, user_id).current_capital
get_portfolio_by_user(capital) ==
    IF capital = NONE THEN FInt(DEFAULT_CAPITAL) ELSE capital

\* add_holding(db, user_id, holding_data)
add_holding(capital, rows, recs, symbol, quantity, avg_price) ==
    LET cap == get_portfolio_by_user(capital)
        existing == {h \in rows : h.symbol = symbol}
        cost == quantity * avg_price
        new_rows ==
            IF existing # {}
            THEN LET e == CHOOSE h \in existing : TRUE
                     total_quantity == e.quantity + quantity
                     total_cost == FAdd(FMul(FInt(e.quantity), e.avg_price),
                                        FInt(cost))
                 IN (rows \ {e}) \cup
                    {[symbol |-> symbol, quantity |-> total_quantity,
                      avg_price |-> Frac(total_cost[1],
                                         total_cost[2] * total_quantity)]}
            ELSE rows \cup {[symbol |-> symbol, quantity |-> quantity,
                             avg_price |-> FInt(avg_price)]}
    IN [current_capital |-> FSub(cap, FInt(cost)),
        holdings |-> new_rows,
        records |-> Append(recs, [signal |-> "BUY", entry_price |-> avg_price,
                                  shares |-> quantity, pnl |-> NONE]),
        status |-> "success"]

\* sell_holding with the sold-out row kept at quantity 0
sell_holding_m(capital, rows, recs, symbol, quantity, sell_price) ==
    LET cap == get_portfolio_by_user(capital)
        found == {h \in rows : h.symbol = symbol}
        holding == CHOOSE h \in found : TRUE
        revenue == quantity * sell_price
    IN IF found = {} \/ holding.quantity < quantity
       THEN [current_capital |-> cap, holdings |-> rows, records |-> recs,
             status |-> "error"]
       ELSE [current_capital |-> FAdd(cap, FInt(revenue)),
             holdings |-> (rows \ {holding}) \cup
                          {[holding EXCEPT !.quantity = @ - quantity]},
             records |-> Append(recs,
                 [signal |-> "SELL", entry_price |-> sell_price,
                  shares |-> quantity,
                  pnl |-> FSub(FInt(revenue),
                               FMul(holding.avg_price, FInt(quantity)))]),
             status |-> "success"]

\* sell_holding(db, user_id, sell_data)
sell_holding(capital, rows, recs, symbol, quantity, sell_price) ==
    LET cap == get_portfolio_by_user(capital)
        found == {h \in rows : h.symbol = symbol}
        holding == CHOOSE h \in found : TRUE
        revenue == quantity * sell_price
    IN IF found = {}
       THEN [current_capital |-> cap, holdings |-> rows, records |-> recs,
             status |-> "error"]
       ELSE IF holding.quantity < quantity
       THEN [current_capital |-> cap, holdings |-> rows, records |-> recs,
             status |-> "error"]
       ELSE [current_capital |-> FAdd(cap, FInt(revenue)),
             holdings |-> IF holding.quantity = quantity
                          THEN rows \ {holding}
                          ELSE (rows \ {holding}) \cup
                               {[holding EXCEPT !.quantity = @ - quantity]},
             records |-> Append(recs,
                 [signal |-> "SELL", entry_price |-> sell_price,
                  shares |-> quantity,
                  pnl |-> FSub(FInt(revenue),
                               FMul(holding.avg_price, FInt(quantity)))]),
             status |-> "success"]

TradeIdle ==
    /\ current_capital = NONE
    /\ holdings = {}
    /\ records = <<>>
    /\ trades = 0
    /\ last_trade = [op |-> NONE]

TradeInit == TradeIdle

\* POST /portfolio/{user_id}/holdings
AddStock ==
    \E s \in HoldingSymbols, q \in TradeQuantities, p \in TradePrices :
        LET r == add_holding(current_capital, holdings, records, s, q, p)
        IN /\ trades < MaxTrades
           /\ trades' = trades + 1
           /\ current_capital' = r.current_capital
           /\ holdings' = r.holdings
           /\ records' = r.records
           /\ last_trade' = [op |-> "add_holding", symbol |-> s, quantity |-> q,
                             price |-> p, status |-> r.status, http |-> 200]
           /\ UNCHANGED <<servingVars, exceptTrade>>

\* POST /portfolio/{user_id}/sell: status 'error' becomes HTTP 400
SellStock ==
    \E s \in HoldingSymbols, q \in TradeQuantities, p \in TradePrices :
        LET r == sell_holding(current_capital, holdings, records, s, q, p)
        IN /\ trades < MaxTrades
           /\ trades' = trades + 1
           /\ current_capital' = r.current_capital
           /\ holdings' = r.holdings
           /\ records' = r.records
           /\ last_trade' = [op |-> "sell_holding", symbol |-> s, quantity |-> q,
                             price |-> p, status |-> r.status,
                             http |-> IF r.status = "error" THEN 400 ELSE 200]
           /\ UNCHANGED <<servingVars, exceptTrade>>

-----------------------------------------------------------------------------
(* marl_4agent/live_week_simulation.py : the daily trade of                 *)
(* simulate_live_week, lines 131-136 and 176-221.  Money is in units of      *)
(* 100,000 KRW.                                                              *)

MaxSimDays == 3

\* initial_capital=10_000_000
INITIAL_CAPITAL == 100

\* (Low, Close, High) of a day, positive and ordered
DayPrices ==
    {p \in {1, 2} \X {1, 2} \X {1, 2} : p[1] <= p[2] /\ p[2] <= p[3]}

\* the trade with the sell ratio ten times as large
execute_trade_m(cash, shares, ja, low_price, close_price, high_price) ==
    LET day_signal == live_week_signal(ja)
        strength == IF vote_sum(ja) < 0 THEN -vote_sum(ja) ELSE vote_sum(ja)
        old_portfolio_value == cash + shares * close_price
        buys == /\ old_portfolio_value * strength > 10 * N_AGENTS_4 * low_price
                /\ old_portfolio_value * strength <= 10 * N_AGENTS_4 * cash
        bought == (old_portfolio_value * strength) \div (10 * N_AGENTS_4 * low_price)
        sold == (shares * strength * 3) \div N_AGENTS_4
    IN IF day_signal = KO_BUY /\ buys
       THEN [cash |-> cash - bought * low_price, shares |-> shares + bought,
             signal |-> day_signal, trade_shares |-> bought]
       ELSE IF day_signal = KO_SELL /\ shares > 0 /\ sold > 0
       THEN [cash |-> cash + sold * high_price, shares |-> shares - sold,
             signal |-> day_signal, trade_shares |-> sold]
       ELSE [cash |-> cash, shares |-> shares, signal |-> day_signal,
             trade_shares |-> 0]

\* lines 189-216: signal_strength = |vote_sum| / N_AGENTS;
\* buy_amount = old_portfolio_value * signal_strength * 0.1, bought at the low;
\* int(shares * signal_strength * 0.3) shares sold at the high
execute_trade(cash, shares, ja, low_price, close_price, high_price) ==
    LET day_signal == live_week_signal(ja)
        strength == IF vote_sum(ja) < 0 THEN -vote_sum(ja) ELSE vote_sum(ja)
        old_portfolio_value == cash + shares * close_price
        buys == /\ old_portfolio_value * strength > 10 * N_AGENTS_4 * low_price
                /\ old_portfolio_value * strength <= 10 * N_AGENTS_4 * cash
        bought == (old_portfolio_value * strength) \div (10 * N_AGENTS_4 * low_price)
        sold == (shares * strength * 3) \div (10 * N_AGENTS_4)
    IN IF day_signal = KO_BUY /\ buys
       THEN [cash |-> cash - bought * low_price, shares |-> shares + bought,
             signal |-> day_signal, trade_shares |-> bought]
       ELSE IF day_signal = KO_SELL /\ shares > 0 /\ sold > 0
       THEN [cash |-> cash + sold * high_price, shares |-> shares - sold,
             signal |-> day_signal, trade_shares |-> sold]
       ELSE [cash |-> cash, shares |-> shares, signal |-> day_signal,
             trade_shares |-> 0]

SimIdle ==
    /\ sim_cash = 0
    /\ sim_shares = 0
    /\ sim_day = 0
    /\ sim_trade = [signal |-> NONE]

\* lines 131-136
SimInit ==
    /\ sim_cash = INITIAL_CAPITAL
    /\ sim_shares = 0
    /\ sim_day = 0
    /\ sim_trade = [signal |-> NONE]

\* one pass of the loop over available_dates; ja is what
\* learner.select_actions returns
SimulateDay ==
    \E ja \in JointActions4, p \in DayPrices :
        LET t == execute_trade(sim_cash, sim_shares, ja, p[1], p[2], p[3])
        IN /\ sim_day < MaxSimDays
           /\ sim_day' = sim_day + 1
           /\ sim_cash' = t.cash
           /\ sim_shares' = t.shares
           /\ sim_trade' = [signal |-> t.signal, votes |-> vote_sum(ja),
                            trade_shares |-> t.trade_shares,
                            low |-> p[1], close |-> p[2], high |-> p[3]]
           /\ UNCHANGED <<servingVars, exceptSim>>

-----------------------------------------------------------------------------
ServingIdle == SigIdle /\ SelIdle /\ HistIdle /\ SvcIdle /\ LdrIdle

EngineIdle == GrdIdle /\ FeatIdle /\ GradIdle /\ WinIdle /\ Sig4Idle
              /\ TrainIdle /\ MixIdle /\ AuthIdle /\ AcctIdle /\ PriceIdle
              /\ A2cIdle /\ CwdIdle /\ TradeIdle /\ SimIdle

vars == <<servingVars, engineVars>>

SigNext == ConvertUtils \/ ConvertInference
SelNext == SelectAction
HistNext == HistSkipMissing \/ HistSkipShort \/ HistEmit \/ HistReturn

InitSignal == SigInit /\ SelIdle /\ HistIdle /\ SvcIdle /\ LdrIdle /\ EngineIdle
SpecSignal == InitSignal /\ [][SigNext]_vars
InitSelect == SelInit /\ SigIdle /\ HistIdle /\ SvcIdle /\ LdrIdle /\ EngineIdle
SpecSelect == InitSelect /\ [][SelNext]_vars
SvcNext == ServicePredictToday \/ Predict \/ Tick
LoadNext == GetTodaySignal \/ GetHistory \/ Tick \/ LoadMarlModel \/ PredictMarl
            \/ GetModelStatus \/ SimulateLiveWeek

InitHist == HistInit /\ SigIdle /\ SelIdle /\ SvcIdle /\ LdrIdle /\ EngineIdle
SpecHist == InitHist /\ [][HistNext]_vars

Init == SvcInit /\ LdrIdle /\ SigIdle /\ SelIdle /\ HistIdle /\ EngineIdle
Spec == Init /\ [][SvcNext]_vars
InitLoad == SvcInit /\ LdrInit /\ SigIdle /\ SelIdle /\ HistIdle /\ EngineIdle
SpecLoad == InitLoad /\ [][LoadNext]_vars

GrdNext == GreedySelect
InitGreedy == ServingIdle /\ GrdInit /\ FeatIdle /\ GradIdle /\ WinIdle
              /\ Sig4Idle /\ TrainIdle /\ MixIdle /\ AuthIdle /\ AcctIdle
              /\ PriceIdle /\ A2cIdle /\ CwdIdle /\ TradeIdle /\ SimIdle
SpecGreedy == InitGreedy /\ [][GrdNext]_vars

FeatNext == GetTopFeaturesMarl
InitFeat == ServingIdle /\ GrdIdle /\ FeatInit /\ GradIdle /\ WinIdle
              /\ Sig4Idle /\ TrainIdle /\ MixIdle /\ AuthIdle /\ AcctIdle
              /\ PriceIdle /\ A2cIdle /\ CwdIdle /\ TradeIdle /\ SimIdle
SpecFeat == InitFeat /\ [][FeatNext]_vars

GradNext == NoGradEnter \/ NoGradExit \/ SelectActionsCall \/ GetQValues
            \/ MixerCall \/ Attribute
InitGrad == ServingIdle /\ GrdIdle /\ FeatIdle /\ GradInit /\ WinIdle
              /\ Sig4Idle /\ TrainIdle /\ MixIdle /\ AuthIdle /\ AcctIdle
              /\ PriceIdle /\ A2cIdle /\ CwdIdle /\ TradeIdle /\ SimIdle
SpecGrad == InitGrad /\ [][GradNext]_vars

WinNext == WrapperOverride \/ HistoryOverride \/ InferenceOverride
InitWindow == ServingIdle /\ GrdIdle /\ FeatIdle /\ GradIdle /\ WinInit
              /\ Sig4Idle /\ TrainIdle /\ MixIdle /\ AuthIdle /\ AcctIdle
              /\ PriceIdle /\ A2cIdle /\ CwdIdle /\ TradeIdle /\ SimIdle
SpecWindow == InitWindow /\ [][WinNext]_vars

Sig4Next == ConvertMain \/ LiveWeekVote
InitSignal4 == ServingIdle /\ GrdIdle /\ FeatIdle /\ GradIdle /\ WinIdle
              /\ Sig4Init /\ TrainIdle /\ MixIdle /\ AuthIdle /\ AcctIdle
              /\ PriceIdle /\ A2cIdle /\ CwdIdle /\ TradeIdle /\ SimIdle
SpecSignal4 == InitSignal4 /\ [][Sig4Next]_vars

TrainNext == EpisodeReset \/ TrainStep \/ FinishTraining
InitTrain == ServingIdle /\ GrdIdle /\ FeatIdle /\ GradIdle /\ WinIdle
              /\ Sig4Idle /\ TrainInit /\ MixIdle /\ AuthIdle /\ AcctIdle
              /\ PriceIdle /\ A2cIdle /\ CwdIdle /\ TradeIdle /\ SimIdle
SpecTrain == InitTrain /\ [][TrainNext]_vars

MixNext == MixerEval \/ FinalDayAnalysis
InitMixer == ServingIdle /\ GrdIdle /\ FeatIdle /\ GradIdle /\ WinIdle
              /\ Sig4Idle /\ TrainIdle /\ MixInit /\ AuthIdle /\ AcctIdle
              /\ PriceIdle /\ A2cIdle /\ CwdIdle /\ TradeIdle /\ SimIdle
SpecMixer == InitMixer /\ [][MixNext]_vars

AuthNext == ProtectedRequest
InitAuth == ServingIdle /\ GrdIdle /\ FeatIdle /\ GradIdle /\ WinIdle
              /\ Sig4Idle /\ TrainIdle /\ MixIdle /\ AuthInit /\ AcctIdle
              /\ PriceIdle /\ A2cIdle /\ CwdIdle /\ TradeIdle /\ SimIdle
SpecAuth == InitAuth /\ [][AuthNext]_vars

AcctNext == google_auth \/ onboarding_complete
InitAcct == ServingIdle /\ GrdIdle /\ FeatIdle /\ GradIdle /\ WinIdle
              /\ Sig4Idle /\ TrainIdle /\ MixIdle /\ AuthIdle /\ AcctInit
              /\ PriceIdle /\ A2cIdle /\ CwdIdle /\ TradeIdle /\ SimIdle
SpecAcct == InitAcct /\ [][AcctNext]_vars

PriceNext == BulkCreate \/ FetchAndSave
InitPrice == ServingIdle /\ GrdIdle /\ FeatIdle /\ GradIdle /\ WinIdle
              /\ Sig4Idle /\ TrainIdle /\ MixIdle /\ AuthIdle /\ AcctIdle
              /\ PriceInit /\ A2cIdle /\ CwdIdle /\ TradeIdle /\ SimIdle
SpecPrice == InitPrice /\ [][PriceNext]_vars

HistoryNext == HistNext \/ A2CHistStep
InitHistory == SigIdle /\ SelIdle /\ HistInit /\ SvcIdle /\ LdrIdle
              /\ GrdIdle /\ FeatIdle /\ GradIdle /\ WinIdle /\ Sig4Idle
              /\ TrainIdle /\ MixIdle /\ AuthIdle /\ AcctIdle /\ PriceIdle
              /\ A2cInit /\ CwdIdle /\ TradeIdle /\ SimIdle
SpecHistory == InitHistory /\ [][HistoryNext]_vars
\* the loop is a sequential program: an enabled step is eventually taken.
\* Which branch an iteration takes depends on the days that have a row, not on
\* the closes, so one close level is enough here.
InitHistoryLive == InitHistory /\ original_prices \in [Days -> {0, 50}]
SpecHistoryLive ==
    InitHistoryLive /\ [][HistoryNext]_vars /\ WF_vars(HistoryNext)

CwdNext == WrapperCall \/ GetCwd \/ Chdir \/ TryBlock \/ Finally
InitCwd == ServingIdle /\ GrdIdle /\ FeatIdle /\ GradIdle /\ WinIdle
              /\ Sig4Idle /\ TrainIdle /\ MixIdle /\ AuthIdle /\ AcctIdle
              /\ PriceIdle /\ A2cIdle /\ CwdInit /\ TradeIdle /\ SimIdle
SpecCwd == InitCwd /\ [][CwdNext]_vars
\* the same calls served from a thread pool
InitCwdPool == ServingIdle /\ GrdIdle /\ FeatIdle /\ GradIdle /\ WinIdle
              /\ Sig4Idle /\ TrainIdle /\ MixIdle /\ AuthIdle /\ AcctIdle
              /\ PriceIdle /\ A2cIdle /\ CwdPoolInit /\ TradeIdle /\ SimIdle
SpecCwdPool == InitCwdPool /\ [][CwdNext]_vars

TradeNext == AddStock \/ SellStock
InitTrade == ServingIdle /\ GrdIdle /\ FeatIdle /\ GradIdle /\ WinIdle
              /\ Sig4Idle /\ TrainIdle /\ MixIdle /\ AuthIdle /\ AcctIdle
              /\ PriceIdle /\ A2cIdle /\ CwdIdle /\ TradeInit /\ SimIdle
SpecTrade == InitTrade /\ [][TradeNext]_vars

SimNext == SimulateDay
InitSim == ServingIdle /\ GrdIdle /\ FeatIdle /\ GradIdle /\ WinIdle
              /\ Sig4Idle /\ TrainIdle /\ MixIdle /\ AuthIdle /\ AcctIdle
              /\ PriceIdle /\ A2cIdle /\ CwdIdle /\ TradeIdle /\ SimInit
SpecSim == InitSim /\ [][SimNext]_vars

-----------------------------------------------------------------------------
(* Properties                                                              *)

\* the vote total as the design states it: +1 per Long (id 0), -1 per Short (id 2)
Score3(ja) == Cardinality({i \in 1..N_AGENTS_3 : ja[i] = 0})
              - Cardinality({i \in 1..N_AGENTS_3 : ja[i] = 2})

\* the five-step ladder for three agents
Ladder3(score) ==
    IF score >= 3 THEN KO_STRONG_BUY
    ELSE IF score > 0 THEN KO_BUY
    ELSE IF score = 0 THEN KO_HOLD
    ELSE IF score > -3 THEN KO_SELL
    ELSE KO_STRONG_SELL

\* C1: for three agents and action_map {0:Long,1:Hold,2:Short} the signal of
\* utils.convert_joint_action_to_signal is the ladder value of the vote total,
\* which lies in [-3,+3]; [0,0,0] is Strong-Buy, [0,1,2] Hold, [2,2,1] Sell,
\* [2,2,2] Strong-Sell and [0,0,2] Buy.
C1_SignalLadder ==
    final_signal # NONE =>
        /\ Score3(joint_action) \in -3..3
        /\ final_signal = Ladder3(Score3(joint_action))
        /\ other_final_signal = Ladder3(Score3(other_joint_action))
        /\ joint_action = <<0, 0, 0>> => final_signal = KO_STRONG_BUY
        /\ joint_action = <<0, 1, 2>> => final_signal = KO_HOLD
        /\ joint_action = <<2, 2, 1>> => final_signal = KO_SELL
        /\ joint_action = <<2, 2, 2>> => final_signal = KO_STRONG_SELL
        /\ joint_action = <<0, 0, 2>> => final_signal = KO_BUY

C1_Witness ==
    /\ joint_action = <<0, 0, 2>>
    /\ other_joint_action = <<2, 2, 1>>
    /\ final_signal = KO_BUY
    /\ other_final_signal = KO_SELL

\* C2: in both implementations (utils.py and inference.py) two joint actions
\* with the same vote total are mapped to the same signal.
C2_PureFunctionOfVoteTotal ==
    Score3(joint_action) = Score3(other_joint_action) =>
        /\ final_signal # NONE => final_signal = other_final_signal
        /\ inf_signal # NONE => inf_signal = other_inf_signal

\* C3: every emitted row applies exposure +1 on Buy/Strong-Buy, -1 on
\* Sell/Strong-Sell and 0 on Hold to that day's daily_return, and
\* strategy_return is the running value (1 + cum) * (1 + exposure * r) - 1
\* started from 0.
Exposure(sig) ==
    IF sig \in {KO_BUY, KO_STRONG_BUY} THEN 1
    ELSE IF sig \in {KO_SELL, KO_STRONG_SELL} THEN -1
    ELSE 0

C3_StrategyReturnFollowsSignal ==
    \A i \in 1..Len(results) :
        LET prev == IF i = 1 THEN FZero ELSE results[i - 1].strategy_return
            r    == results[i].daily_return
            e    == Exposure(signal_log[i])
        IN  results[i].strategy_return =
                FSub(FMul(FAdd(FOne, prev), FAdd(FOne, FMul(FInt(e), r))), FOne)

\* largest probability and the gap to the runner-up, read off the vector
LargestProb(p) == Max({p[i] : i \in DOMAIN p})
RunnerUp(p) ==
    IF Cardinality({i \in DOMAIN p : p[i] = LargestProb(p)}) > 1
    THEN LargestProb(p)
    ELSE Max({p[i] : i \in {j \in DOMAIN p : p[j] # LargestProb(p)}})

Gated(p, conf, margin) ==
    \/ LargestProb(p) * 100 < conf * ProbUnits
    \/ (LargestProb(p) - RunnerUp(p)) * 100 < margin * ProbUnits

\* C4: _select_action_from_logits returns Hold whenever the largest
\* probability is below min_conf or the top-two gap is below min_margin,
\* whatever the sample flag and the draw; a non-Hold action is returned only
\* when both thresholds are met, and is the draw when sample is set and the
\* argmax otherwise.
C4_ConfidenceGating ==
    action_idx # -1 =>
        /\ Gated(probs, min_conf, min_margin) => action_idx = HOLD_ID
        /\ action_idx # HOLD_ID =>
              /\ ~Gated(probs, min_conf, min_margin)
              /\ sample => action_idx = sampled /\ probs[action_idx] > 0
              /\ ~sample => probs[action_idx] = LargestProb(probs)

C4_Witness ==
    /\ action_idx = HOLD_ID
    /\ sample
    /\ sampled = 0
    /\ LargestProb(probs) * 100 >= min_conf * ProbUnits
    /\ (LargestProb(probs) - RunnerUp(probs)) * 100 < min_margin * ProbUnits

\* the aggregated signal of a joint action, as a direction
Direction(ja) ==
    IF Ladder3(Score3(ja)) \in {KO_BUY, KO_STRONG_BUY} THEN "BUY"
    ELSE IF Ladder3(Score3(ja)) \in {KO_SELL, KO_STRONG_SELL} THEN "SELL"
    ELSE "HOLD"

\* C5: a successful AIService.predict_today answer agrees with the model's
\* decision under the id mapping 0 = BUY, 1 = SELL, 2 = HOLD: for mode marl
\* the action is BUY iff the joint action aggregates to Buy or Strong-Buy,
\* SELL iff to Sell or Strong-Sell and HOLD iff to Hold; for mode a2c it is the
\* label of the selected id; action_ko is the Korean label of the same id.
C5_ActionAgreesWithDecision ==
    (svc_result.kind = "returned" /\ svc_result.path = "success") =>
        /\ svc_result.mode = "marl" =>
              svc_result.body.action = Direction(last_call.body.joint_action)
        /\ svc_result.mode = "a2c" =>
              /\ last_call.body.action = 0 <=> svc_result.body.action = "BUY"
              /\ last_call.body.action = 1 <=> svc_result.body.action = "SELL"
              /\ last_call.body.action = 2 <=> svc_result.body.action = "HOLD"
        /\ svc_result.body.action = "BUY" => svc_result.body.action_ko = KO_BUY
        /\ svc_result.body.action = "SELL" => svc_result.body.action_ko = KO_SELL
        /\ svc_result.body.action = "HOLD" => svc_result.body.action_ko = KO_WATCH

C5_Witness ==
    /\ svc_result.kind = "returned"
    /\ svc_result.path = "success"
    /\ svc_result.mode = "marl"
    /\ last_call.body.joint_action = <<0, 0, 2>>
    /\ svc_result.body.action = "BUY"
    /\ svc_result.body.action_ko = KO_BUY

WrapperOps == {"predict_today", "get_historical_signals"}

\* C6: a wrapper call that finds model_loaded False after load_model raises;
\* it returns no result, no None and no list.
C6_NotLoadedRaises ==
    (/\ last_call.kind # NONE
     /\ last_call.op \in WrapperOps
     /\ ~model_loaded[last_call.model]) => last_call.kind = "raised"

C6_Witness ==
    /\ last_call.kind = "raised"
    /\ last_call.op = "predict_today"
    /\ last_call.model = "marl"
    /\ load_env["marl"] = "missing"
    /\ ~model_loaded["marl"]

\* C7: when the weights are missing or fail to load no entry point serves
\* from the networks as constructed: ModelLoader neither reports the load as
\* done nor the model as available nor predicts, the weekly simulation does
\* not run, and the wrappers return nothing.
C7_RefusesUnloadedWeights ==
    last_call.kind # NONE =>
        /\ (last_call.op = "load_marl_model" /\ last_call.returned)
              => marl_model = "loaded"
        /\ (last_call.op = "get_model_status"
             /\ last_call.marl_3agent = "available") => marl_model = "loaded"
        /\ (last_call.op = "predict_marl" /\ last_call.kind = "result")
              => marl_model = "loaded"
        /\ (last_call.op = "simulate_live_week" /\ last_call.kind = "simulated")
              => last_call.weights = "loaded"
        /\ (last_call.op \in WrapperOps /\ last_call.kind # "raised")
              => load_env[last_call.model] \in {"ok", "shap_fails"}

\* C8: for mode a2c or marl AIService.predict_today always returns, and its
\* answer is HOLD / gwanmang whenever the wrapper's predict_today raised or
\* returned None or its get_historical_signals raised; for any other mode it
\* raises ValueError without having called a wrapper.
C8_ServiceDefaultsToHold ==
    svc_result.kind # NONE =>
        /\ svc_result.mode \in {"a2c", "marl"} =>
              /\ svc_result.kind = "returned"
              /\ (\/ svc_result.today_pred \in {"raised", "none"}
                  \/ svc_result.hist = "raised") =>
                    /\ svc_result.body.action = "HOLD"
                    /\ svc_result.body.action_ko = KO_WATCH
        /\ svc_result.mode \notin {"a2c", "marl"} =>
              /\ svc_result.kind = "raised"
              /\ svc_result.error = "ValueError"
              /\ svc_result.wrapper_calls = 0

C8_Witness ==
    /\ svc_result.kind = "returned"
    /\ svc_result.mode = "a2c"
    /\ svc_result.today_pred = "none"
    /\ svc_result.wrapper_calls = 2
    /\ svc_result.body.action = "HOLD"

\* C9: every answer of ai_service.predict_today carries the fields
\* AIPredictResponse requires, so POST /ai/predict returns it with status 200.
C9_ResultFitsResponseSchema ==
    svc_result.kind = "returned" =>
        /\ {"symbol", "model", "date", "action", "action_ko", "confidence",
            "win_rate", "investment_style", "explanation"}
              \subseteq DOMAIN svc_result.body
        /\ http_status # 500

\* C10: predictions are memoized by calendar date: a prediction returned for
\* a date and mode that was served before on that date is the stored one, so
\* it carries the action of the first.
C10_MemoizedByDate ==
    (last_call.kind = "result" /\ last_call.op = "predict_today"
     /\ last_call.day = today) =>
        last_call.body.action = first_served[last_call.model]

\* C11: with epsilon = 0.0 and fixed weights, two selections on the same
\* observation, from whichever call site, give the same joint action and the
\* same signal.
C11_GreedyIsDeterministic ==
    \A i, j \in 1..Len(greedy_log) :
        greedy_log[i].obs = greedy_log[j].obs =>
            /\ greedy_log[i].joint_action = greedy_log[j].joint_action
            /\ greedy_log[i].signal = greedy_log[j].signal

\* two call sites have selected on the same observation, one whose Q-values tie
C11_Witness ==
    \E i, j \in 1..Len(greedy_log) :
        /\ i < j
        /\ greedy_log[i].obs = greedy_log[j].obs
        /\ \E k \in 1..N_AGENTS_3 :
               weights[greedy_log[i].obs][k][1] = weights[greedy_log[i].obs][k][2]

\* the summed importance of a feature name over all agents
SummedImportance(f) ==
    LET pairs == Flatten(agent_analyses)
        RECURSIVE Sum(_)
        Sum(k) == IF k = 0 THEN 0
                  ELSE (IF pairs[k].feature = f THEN pairs[k].imp ELSE 0) + Sum(k - 1)
    IN  Sum(Len(pairs))

FeatureNames == {Flatten(agent_analyses)[k].feature : k \in 1..Len(Flatten(agent_analyses))}

\* C12: get_top_features_marl returns at most top_k features, each with its
\* importance summed over the agents; no feature left out has a larger
\* |summed importance| than a returned one, and the list is in decreasing
\* order of |summed importance|.
C12_TopFeaturesByAbsoluteImportance ==
    feat_done =>
        LET returned == {top_features[r].name : r \in 1..Len(top_features)}
        IN  /\ Len(top_features) <= top_k
            /\ \A r \in 1..Len(top_features) :
                   top_features[r].importance = SummedImportance(top_features[r].name)
            /\ \A f \in FeatureNames \ returned : \A g \in returned :
                   Abs(SummedImportance(f)) <= Abs(SummedImportance(g))
            /\ \A r \in 1..(Len(top_features) - 1) :
                   Abs(top_features[r].importance) >= Abs(top_features[r + 1].importance)

\* C13: on every prediction path, each call of get_prediction_with_reason
\* runs outside the no_grad block used for action selection, that is, with
\* gradient tracking enabled.
C13_AttributionOutsideNoGrad ==
    \A k \in 1..Len(attr_grad) : attr_grad[k] = TRUE

\* C14: whenever a caller assigns dummy_env.current_step, the value is at
\* least 0 and the window it starts, of WINDOW_SIZE rows, ends at or before
\* the last row of the environment's frame; lengths and dates that cannot
\* satisfy this are skipped or rejected.
C14_OverrideWithinWindow ==
    win_set => /\ win_step >= 0
               /\ win_step + WINDOW_SIZE - 1 <= win_rows - 1

\* the vote total of four agents: +1 per Long (id 0), -1 per Short (id 2)
Score4(ja) == Cardinality({i \in 1..N_AGENTS_4 : ja[i] = 0})
              - Cardinality({i \in 1..N_AGENTS_4 : ja[i] = 2})

\* the ladder with strong thresholds at +/-n
LadderN(score, n) ==
    IF score >= n THEN KO_STRONG_BUY
    ELSE IF score > 0 THEN KO_BUY
    ELSE IF score = 0 THEN KO_HOLD
    ELSE IF score > 0 - n THEN KO_SELL
    ELSE KO_STRONG_SELL

\* C15: in the 4-agent variant convert_joint_action_to_signal follows the
\* ladder with strong thresholds +/-4: Strong-Buy only when all four agents
\* vote Long, Strong-Sell only when all four vote Short, Buy for 0 < score < 4,
\* Hold for 0 and Sell for -4 < score < 0.
C15_LadderScalesWithAgents ==
    main_signal # NONE =>
        main_signal = LadderN(Score4(joint_action4), N_AGENTS_4)

\* C16: the replay buffer is a bounded FIFO: after n adds it holds
\* min(n, capacity) transitions, namely the most recent ones in order of
\* insertion, and a minibatch never contains a transition older than those.
C16_ReplayBufferIsBoundedFifo ==
    /\ Len(buffer) = (IF total_steps < BUFFER_SIZE THEN total_steps ELSE BUFFER_SIZE)
    /\ \A k \in 1..Len(buffer) : buffer[k].id = total_steps - Len(buffer) + k
    /\ \A id \in last_sample : id > total_steps - BUFFER_SIZE /\ id <= total_steps

\* capacity + 2 transitions were added from an empty buffer and a minibatch
\* was drawn afterwards
C16_Witness ==
    /\ start_steps = 0
    /\ total_steps = BUFFER_SIZE + 2
    /\ last_sample # {}
    /\ \A id \in last_sample : id > 2

\* C19: the exploration parameter passed at global step t is
\* max(0.01, 1.0 - t/50000), with t counted across episodes and never reset:
\* it lies in [0.01, 1.0], never increases, strictly decreases while above
\* the floor 0.01 and stays at the floor afterwards.
C19_EpsilonSchedule ==
    [][/\ total_steps' \in {total_steps, total_steps + 1}
       /\ total_steps' = total_steps + 1 =>
             /\ 100 * epsilon' >= EPS_DECAY_STEPS
             /\ epsilon' <= EPS_DECAY_STEPS
             /\ epsilon' >= EPS_DECAY_STEPS - total_steps'
             /\ \/ epsilon' = EPS_DECAY_STEPS - total_steps'
                \/ 100 * epsilon' = EPS_DECAY_STEPS
             /\ epsilon # -1 =>
                   /\ epsilon' <= epsilon
                   /\ 100 * epsilon > EPS_DECAY_STEPS => epsilon' < epsilon
                   /\ 100 * epsilon = EPS_DECAY_STEPS => epsilon' = epsilon
       /\ total_steps' = total_steps => epsilon' = epsilon]_vars

\* the schedule has reached its floor in a later episode than the first
C19_Witness ==
    /\ 100 * epsilon = EPS_DECAY_STEPS
    /\ total_steps > EPS_DECAY_STEPS - EPS_FLOOR
    /\ i_episode >= 1
    /\ train_pc = "step"

\* C20: update_target_networks is called in exactly the steps whose global
\* step count is a positive multiple of TARGET_UPDATE_FREQ, after that
\* step's buffer.add and learner.train; in every other step the target
\* networks are left as they are.
C20_TargetSyncCadence ==
    [][LET called == sync_count' # sync_count
       IN  /\ sync_count' \in {sync_count, sync_count + 1}
           /\ called <=> /\ total_steps' = total_steps + 1
                          /\ total_steps' > 0
                          /\ total_steps' % TARGET_UPDATE_FREQ = 0
           /\ called => /\ buffer'[Len(buffer')].id = total_steps'
                         /\ target_version' = online_version'
           /\ ~called => target_version' = target_version]_vars

\* two syncs have happened since the start and the online networks have
\* moved on since the second
C20_Witness ==
    /\ start_steps = 0
    /\ sync_count = 2
    /\ target_version # online_version
    /\ i_episode >= 1

\* C17: for a fixed global state and mixing weights, raising per-agent
\* values never lowers the team value: v' >= v elementwise implies
\* Q_total(v') >= Q_total(v).
C17_MixerIsMonotone ==
    mix_op = "mixer" =>
        ((\A i \in 1..N_AGENTS_4 : v_lo[i] <= v_hi[i]) => q_total_lo <= q_total_hi)

\* two different value vectors went through a mixer with a weight the
\* hypernetwork generated negative and one it generated zero
C17_Witness ==
    /\ mix_op = "mixer"
    /\ \E i \in 1..N_AGENTS_4 : v_lo[i] < v_hi[i] /\ hyper_w[i] < 0
    /\ \E i \in 1..N_AGENTS_4 : hyper_w[i] = 0
    /\ q_total_lo < q_total_hi

C21_ApiKeyRule ==
    auth_status # 0 =>
        IF api_key = "" THEN auth_status = 200
        ELSE IF req_header = api_key THEN auth_status = 200
        ELSE auth_status = 401

\* C22: after any sequence of google_auth calls every email called with has
\* exactly one User and every user exactly one default portfolio; is_new_user
\* is True on exactly the first call for an email; needs_onboarding is True in
\* every answer before onboarding_complete succeeded for the user and False
\* in every answer after it.
C22_GoogleAuthIdempotent ==
    /\ \A k \in 1..Len(auth_log) :
           auth_log[k].op = "google_auth" =>
               Cardinality({i \in 1..Len(users) :
                               users[i].email = auth_log[k].email}) = 1
    /\ \A i \in 1..Len(users) :
           Cardinality({k \in 1..Len(portfolios) : portfolios[k] = i}) = 1
    /\ \A k \in 1..Len(auth_log) :
           auth_log[k].op = "google_auth" =>
               LET first == \A j \in 1..(k - 1) :
                               ~(auth_log[j].op = "google_auth"
                                 /\ auth_log[j].email = auth_log[k].email)
                   done == \E j \in 1..(k - 1) :
                               /\ auth_log[j].op = "onboarding_complete"
                               /\ auth_log[j].status = 200
                               /\ auth_log[j].email = auth_log[k].email
               IN /\ auth_log[k].status = 200
                  /\ auth_log[k].is_new_user = first
                  /\ auth_log[k].needs_onboarding = ~done

\* C23: after any sequence of bulk_create_stock_prices and
\* fetch_and_save_historical_data calls no (symbol, date) is stored twice, also
\* when an input list holds a pair twice; the returned count is the number of
\* rows inserted; saving the same data a second time inserts 0 rows.
C23_NoDuplicatePrices ==
    /\ \A k \in PriceKeys : stock_prices[k] <= 1
    /\ save_call.op # NONE =>
           /\ save_call.count = save_call.inserted
           /\ save_call.repeated => save_call.inserted = 0

\* a list holding one pair twice was saved, and a save was repeated
C23_Witness ==
    /\ save_call.op = "bulk_create_stock_prices"
    /\ save_call.repeated
    /\ Len(save_call.input) = 2
    /\ save_call.input[1] = save_call.input[2]
    /\ stock_prices[save_call.input[1]] = 1
    /\ \E k \in PriceKeys : k[1] # save_call.input[1][1] /\ stock_prices[k] = 1

\* the rows the latest signal was computed from: hist_window for the A2C
\* wrapper, the environment's window [current_step, current_step + WINDOW_SIZE)
\* for the MARL wrapper
SignalWindow ==
    IF hist_kind = "A2CWrapper" THEN hist_window
    ELSE {RowDay(original_prices, k) :
             k \in current_step..(current_step + WINDOW_SIZE - 1)}

\* the n latest trading days strictly before day d
RECURSIVE LatestBefore(_, _)
LatestBefore(d, n) ==
    LET before == {e \in Index(original_prices) : e < d}
    IN IF n = 0 \/ before = {} THEN {}
       ELSE LET last == CHOOSE e \in before : \A x \in before : x <= e
            IN {last} \cup LatestBefore(last, n - 1)

\* C24: in both wrappers the window behind the signal of date d holds exactly
\* WINDOW_SIZE consecutive rows, all before d, ending at the row immediately
\* before d, and the signal is applied to the return from that row's close to
\* d's close.
C24_NoLookAhead ==
    results # <<>> =>
        LET d == results[Len(results)].date
            prev == CHOOSE e \in LatestBefore(d, 1) : TRUE
        IN /\ Cardinality(SignalWindow) = WINDOW_SIZE
           /\ SignalWindow = LatestBefore(d, WINDOW_SIZE)
           /\ \A e \in SignalWindow : e < d
           /\ results[Len(results)].daily_return =
                  Frac(original_prices[d] - original_prices[prev],
                       original_prices[prev])

\* the A2C wrapper emitted a row for a day whose previous trading row is not
\* the calendar day before it, with a different close
C24_Witness ==
    /\ hist_kind = "A2CWrapper"
    /\ results # <<>>
    /\ LET d == results[Len(results)].date
       IN /\ (d - 1) \notin Index(original_prices)
          /\ original_prices[d] # original_prices[d - 2]

\* C28: every iteration of the date loop of get_historical_signals, on every
\* branch, advances target_date by exactly one day, so the loop ends after at
\* most yesterday - start_dt + 1 iterations; the returned dates are strictly
\* increasing, one entry per date, all within [start_dt, yesterday].
C28_DateLoopTerminatesOrdered ==
    /\ [][hist_done' = hist_done => target_date' = target_date + 1]_vars
    /\ [](/\ target_date >= start_dt
          /\ target_date - start_dt <= Max({0, yesterday - start_dt + 1})
          /\ \A i \in 1..Len(results) :
                 /\ results[i].date \in start_dt..yesterday
                 /\ results[i].date < target_date
                 /\ i > 1 => results[i - 1].date < results[i].date)
    /\ <>hist_done

\* the A2C loop returned after a missing day, days without enough history and
\* an emitted row
C28_Witness ==
    /\ hist_done
    /\ hist_kind = "A2CWrapper"
    /\ start_dt = 1
    /\ results # <<>>
    /\ \E d \in start_dt..yesterday : d \notin Index(original_prices)

\* C27: model_loaded becomes True only after the weights were loaded, never
\* reverts to False, a load_model call with model_loaded True changes nothing,
\* and whenever model_loaded is True everything prediction needs is set: for
\* the A2C wrapper that includes explainer and feature_names.
C27_ModelLoadedMeansReady ==
    /\ [](\A m \in DOMAIN model_loaded :
             model_loaded[m] =>
                 /\ load_env[m] \in {"ok", "shap_fails"}
                 /\ m = "a2c" => explainer_set)
    /\ [][\A m \in DOMAIN model_loaded :
             model_loaded[m] =>
                 /\ model_loaded'[m]
                 /\ m = "a2c" => explainer_set' = explainer_set]_vars

\* C25: in a sequential execution every wrapper method that changes the
\* working directory restores it on every exit path: between calls the
\* working directory is the one before the call.
C25_CwdRestored ==
    (~overlap /\ \A t \in DOMAIN call : call[t].pc = "idle") => cwd = SERVER_CWD

\* a call has ended by a propagated exception after the directory was changed
C25_Witness ==
    /\ ~overlap
    /\ last_exit = "propagated exception"
    /\ \A t \in DOMAIN call : call[t].pc = "idle"
    /\ cwd = SERVER_CWD

\* C26: when wrapper calls overlap, every interleaving ends with the working
\* directory equal to the original one, and while a call runs its body the
\* working directory is that call's model directory.
C26_CwdUnderOverlap ==
    /\ (\A t \in DOMAIN call : call[t].pc = "idle") => cwd = SERVER_CWD
    /\ \A t \in DOMAIN call :
           call[t].pc \in {"load:try", "main:try"}
               => cwd = ModelDir(call[t].wrapper)

\* the cash a user's portfolio holds: a portfolio not created yet is created
\* with the default capital by whatever touches it first
CashBalance(capital) == IF capital = NONE THEN FInt(DEFAULT_CAPITAL) ELSE capital

Held(rows, s) == {h.quantity : h \in {x \in rows : x.symbol = s}}

C30_LiveWeekTradesWithinMeans ==
    /\ [](sim_cash >= 0 /\ sim_shares >= 0)
    /\ [][sim_day' = sim_day + 1 =>
            LET n == sim_shares' - sim_shares
                votes == IF sim_trade'.votes < 0 THEN -sim_trade'.votes
                         ELSE sim_trade'.votes
                value == sim_cash + sim_shares * sim_trade'.close
            IN /\ n > 0 =>
                    /\ sim_trade'.signal = KO_BUY
                    /\ value * votes <= 10 * N_AGENTS_4 * sim_cash
                    /\ sim_cash' = sim_cash - n * sim_trade'.low
                    /\ 10 * N_AGENTS_4 * n * sim_trade'.low <= value * votes
               /\ n < 0 =>
                    /\ sim_trade'.signal = KO_SELL
                    /\ -n <= sim_shares
                    /\ sim_cash' = sim_cash - n * sim_trade'.high
               /\ n = 0 => sim_cash' = sim_cash
               /\ sim_trade'.signal = KO_HOLD => n = 0]_vars

\* shares bought on a Buy day were partly sold on a Sell day
C30_Witness ==
    /\ sim_trade.signal = KO_SELL
    /\ sim_trade.trade_shares > 0
    /\ sim_shares > 0
    /\ sim_cash < INITIAL_CAPITAL + sim_trade.trade_shares * sim_trade.high
====
